---- MODULE Spec2Model ----
(***************************************************************************)
(* TimberGem symbol detection: the Detection Coordinator's run, the       *)
(* Detection Storage records (run index, run record, per-symbol record)   *)
(* and the Detection Progress ledger of one document.                     *)
(*                                                                         *)
(* One thread per run request executes DetectionCoordinator.run_detection *)
(* step by step; the interactive edit operations of DetectionStorage act  *)
(* on the persisted records.  The environment of a run (symbols catalog,  *)
(* page geometry, source PDF, template images, page rasters, what the     *)
(* algorithm finds) is fixed when a behaviour starts.                     *)
(***************************************************************************)
EXTENDS Integers, Sequences, FiniteSets, TLC

\* ---------------------------------------------------------------- bounds
MaxRuns == 2
MaxSymbols == 2
MaxPages == 2
MaxFound == 1
MaxUserAdds == 1
MaxUpdates == 2
MaxCoord == 1
ManyPages == 51
MaxLogCalls == 52
TargetSize == 1
ScaleVariance == 1
FarSite == 100
MaxCallers == 2
MaxLedgerSteps == 1
MaxLedgerLogs == 1

\* ------------------------------------------------------ program constants
\* detection_progress.py: "Keep only last 50 errors to prevent file bloat"
MaxLogEntries == 50
DEFAULT_MATCH_THRESHOLD == 30
DEFAULT_IOU_THRESHOLD == 32
NMS_DISTANCE_THRESHOLD == 100
DETECTION_DPI == 300

RunIds == 1..MaxRuns
SymbolIds == 1..MaxSymbols
UnknownSymbol == MaxSymbols + 1
NoFile == [ok |-> FALSE, list |-> <<>>]
File(list) == [ok |-> TRUE, list |-> list]
NoIds == <<>>
Absent == 0 - 1

Statuses == {"pending", "accepted", "rejected", "modified"}
Actions == {"accept", "reject", "pending", "modify"}

VARIABLES
    \* environment of the document (read-only inputs of the core)
    catalog,        \* symbols_metadata.json: whether it loads, the symbol ids in catalog order
    page_metadata,  \* page_metadata.json: whether it exists, the page numbers in file order
    pdf_ok,         \* original.pdf can be opened
    bad_templates,  \* symbols whose template image cannot be loaded
    bad_steps,      \* <<symbol, page>> steps whose raster load or detection raises
    found,          \* <<symbol, page>> -> number of verified candidates
    \* persisted records of DetectionStorage
    runs_index,     \* detection_runs.json: the "runs" list
    run_metadata,   \* run id -> run_metadata.json, for the runs that have one
    symbol_files,   \* run id -> symbol id -> detections.json
    partial,        \* record files that are open for a direct write (truncated)
    \* DetectionProgress, one ledger per run
    progress,       \* run id -> progress_data, for the runs that have a ledger
    \* threads
    thr,            \* run id -> the position of the thread executing run_detection
    clock,          \* creation timestamps handed out so far
    user_seq,       \* run id -> user detections added so far
    del_pending,    \* the delete_detection calls between open("w") and dump (at most one)
    last_load,      \* what the last load_detection_run observed
    deletes,        \* run id -> what the last delete_detection_run of it returned
    backups,        \* record files that have a .bak copy, left by an atomic rewrite
    \* SymbolDetectionAlgorithm
    algo,           \* the detect_symbol_on_page call: its inputs, stage and lists
    \* calls followed step by step
    calls,          \* request thread -> the DetectionStorage call it is inside
    ledger_io       \* progress.json of run 1, its .tmp, the mutex and the last poll

vars == <<catalog, page_metadata, pdf_ok, bad_templates, bad_steps, found,
          runs_index, run_metadata, symbol_files, partial, progress,
          thr, clock, user_seq, del_pending, last_load, deletes, backups, algo,
          calls, ledger_io>>

side_vars == <<calls, ledger_io>>

env_vars == <<catalog, page_metadata, pdf_ok, bad_templates, bad_steps, found>>

\* ---------------------------------------------------------------- helpers
Range(s) == {s[i] : i \in 1..Len(s)}

RECURSIVE SumOver(_, _)
SumOver(f, S) ==
    IF S = {} THEN 0
    ELSE LET x == CHOOSE y \in S : TRUE IN f[x] + SumOver(f, S \ {x})

SeqWithout(s, i) == [j \in 1..(Len(s) - 1) |-> IF j < i THEN s[j] ELSE s[j + 1]]

RECURSIVE Dedup(_)
\* keys of a dict built from a list: first occurrence keeps its position
Dedup(s) ==
    IF s = <<>> THEN <<>>
    ELSE LET front == Dedup(SubSeq(s, 1, Len(s) - 1))
             x == s[Len(s)]
         IN IF x \in Range(front) THEN front ELSE Append(front, x)

Ascending(n) == [i \in 1..n |-> i]

meta_file(r) == <<"run_metadata", r, 0>>
symbol_file(r, s) == <<"detections", r, s>>
index_file == <<"detection_runs", 0, 0>>

\* ------------------------------------------------- DetectionStorage: data
NewDetection(s, p, k) ==
    [detectionId |-> <<"det", s, p, k>>, status |-> "pending", coords |-> 0,
     isUserAdded |-> FALSE, isUserModified |-> FALSE, reviewed |-> FALSE]

UserDetection(s, p, n, c) ==
    [detectionId |-> <<"user", s, p, n>>, status |-> "pending", coords |-> c,
     isUserAdded |-> TRUE, isUserModified |-> FALSE, reviewed |-> FALSE]

AllDetections(dbp) ==
    UNION {{dbp[p][i] : i \in 1..Len(dbp[p])} : p \in DOMAIN dbp}

DetectionIds(dbp) == {d.detectionId : d \in AllDetections(dbp)}

CountStatus(dbp, st) == Cardinality({d \in AllDetections(dbp) : d.status = st})

calculate_symbol_summary(dbp) ==
    LET total == SumOver([p \in DOMAIN dbp |-> Len(dbp[p])], DOMAIN dbp)
    IN [totalDetections |-> total, acceptedCount |-> 0, rejectedCount |-> 0,
        pendingCount |-> total, modifiedCount |-> 0]

recalculate_symbol_summary_miscount(dbp) ==
    [totalDetections |-> Cardinality(AllDetections(dbp)),
     acceptedCount |-> CountStatus(dbp, "accepted"),
     rejectedCount |-> CountStatus(dbp, "rejected"),
     pendingCount |-> CountStatus(dbp, "pending") + CountStatus(dbp, "modified"),
     modifiedCount |-> 0]

recalculate_symbol_summary(dbp) ==
    [totalDetections |-> Cardinality(AllDetections(dbp)),
     acceptedCount |-> CountStatus(dbp, "accepted"),
     rejectedCount |-> CountStatus(dbp, "rejected"),
     pendingCount |-> Cardinality({d \in AllDetections(dbp) :
                          d.status \notin {"accepted", "rejected", "modified"}}),
     modifiedCount |-> CountStatus(dbp, "modified")]

initial_run_metadata(r, now, symbols, total_pages) ==
    [runId |-> r, createdAt |-> now, status |-> "initializing",
     symbol_ids |-> symbols,
     summary |-> [totalSymbols |-> Len(symbols), totalPages |-> total_pages,
                  totalDetections |-> 0, completedSymbols |-> 0,
                  symbolsWithDetections |-> 0,
                  acceptedDetections |-> Absent, rejectedDetections |-> Absent,
                  pendingDetections |-> Absent, modifiedDetections |-> Absent],
     symbolResults |-> <<>>]

\* the run entry kept in detection_runs.json
run_entry(meta) ==
    [runId |-> meta.runId, createdAt |-> meta.createdAt, status |-> meta.status,
     summary |-> meta.summary, symbolCount |-> Len(meta.symbol_ids)]

RECURSIVE InsertDesc(_, _)
\* stable sort by createdAt, newest first: e goes after the entries not older than it
InsertDesc(sorted, e) ==
    IF sorted = <<>> THEN <<e>>
    ELSE IF sorted[1].createdAt >= e.createdAt
         THEN <<sorted[1]>> \o InsertDesc(Tail(sorted), e)
         ELSE <<e>> \o sorted

RECURSIVE SortDesc(_)
SortDesc(s) ==
    IF s = <<>> THEN <<>>
    ELSE InsertDesc(SortDesc(SubSeq(s, 1, Len(s) - 1)), s[Len(s)])

\* variants of update_runs_index: the index left as it was, and the entry
\* appended without the sort
update_runs_index_skip(index, meta) == index

update_runs_index_append(index, meta) ==
    Append(SelectSeq(index, LAMBDA e : e.runId # meta.runId), run_entry(meta))

update_runs_index(index, meta) ==
    LET kept == SelectSeq(index, LAMBDA e : e.runId # meta.runId)
    IN SortDesc(Append(kept, run_entry(meta)))

update_run_symbol_results(meta, s, symbol_summary) ==
    LET results == (s :> symbol_summary) @@ meta.symbolResults
        totals == [x \in DOMAIN results |-> results[x].totalDetections]
    IN [meta EXCEPT
          !.symbolResults = results,
          !.summary.completedSymbols = @ + 1,
          !.summary.totalDetections = SumOver(totals, DOMAIN results),
          !.summary.symbolsWithDetections =
              Cardinality({x \in DOMAIN results : results[x].totalDetections > 0})]

recalculate_run_summary(meta, files) ==
    [meta EXCEPT
       !.summary.acceptedDetections =
           SumOver([s \in DOMAIN files |-> files[s].summary.acceptedCount], DOMAIN files),
       !.summary.rejectedDetections =
           SumOver([s \in DOMAIN files |-> files[s].summary.rejectedCount], DOMAIN files),
       !.summary.pendingDetections =
           SumOver([s \in DOMAIN files |-> files[s].summary.pendingCount], DOMAIN files),
       !.summary.modifiedDetections =
           SumOver([s \in DOMAIN files |-> files[s].summary.modifiedCount], DOMAIN files)]

complete_run_metadata(meta, success) ==
    [meta EXCEPT !.status = IF success THEN "completed" ELSE "failed"]

find_symbol_for_detection(files, id) ==
    {s \in DOMAIN files : id \in DetectionIds(files[s].detectionsByPage)}

\* one update applied to one detection record, an accept undoing an earlier accept
apply_update_toggle(d, u) ==
    IF d.detectionId # u.detectionId THEN d
    ELSE [d EXCEPT
            !.status = CASE u.action = "accept" ->
                                IF @ = "accepted" THEN "pending" ELSE "accepted"
                         [] u.action = "reject" -> "rejected"
                         [] u.action = "pending" -> "pending"
                         [] u.action = "modify" -> "modified"
                         [] OTHER -> @,
            !.coords = IF u.action = "modify" THEN u.newCoords ELSE @,
            !.reviewed = TRUE]

\* one update of _apply_symbol_detection_updates applied to one detection record
apply_update(d, u) ==
    IF d.detectionId # u.detectionId THEN d
    ELSE [d EXCEPT
            !.status = CASE u.action = "accept" -> "accepted"
                         [] u.action = "reject" -> "rejected"
                         [] u.action = "pending" -> "pending"
                         [] u.action = "modify" -> "modified"
                         [] OTHER -> @,
            !.coords = IF u.action = "modify" THEN u.newCoords ELSE @,
            !.reviewed = TRUE]

RECURSIVE apply_updates(_, _)
apply_updates(dbp, updates) ==
    IF updates = <<>> THEN dbp
    ELSE apply_updates(
            [p \in DOMAIN dbp |->
                [i \in 1..Len(dbp[p]) |-> apply_update(dbp[p][i], updates[1])]],
            Tail(updates))

apply_symbol_detection_updates(data, updates) ==
    LET dbp == apply_updates(data.detectionsByPage, updates)
    IN [detectionsByPage |-> dbp, summary |-> recalculate_symbol_summary(dbp)]

\* ------------------------------------------------------- DetectionProgress
\* round(completedSteps / totalSteps * 100, 2), in hundredths of a percent
round_percent(completed, total) ==
    LET n == completed * 10000
        q == n \div total
        twice == 2 * (n % total)
    IN IF twice > total THEN q + 1
       ELSE IF twice = total THEN q + (q % 2)
       ELSE q

new_progress(r) ==
    [runId |-> r, status |-> "initializing", totalSteps |-> 0, completedSteps |-> 0,
     progressPercent |-> 0, currentSymbol |-> 0, currentPage |-> 0,
     estimatedTimeRemaining |-> "None",
     symbolProgress |-> <<>>, errors |-> <<>>, warnings |-> <<>>]

start_detection(l, symbols, total_pages) ==
    [l EXCEPT !.status = "running",
              !.totalSteps = Len(symbols) * total_pages,
              !.symbolProgress =
                  IF symbols = <<>> THEN @
                  ELSE [s \in Range(symbols) |->
                          [status |-> "pending", completedPages |-> 0, totalDetections |-> 0]]]

start_symbol_processing(l, s) ==
    [l EXCEPT !.currentSymbol = s, !.currentPage = 0,
              !.symbolProgress =
                  IF s \in DOMAIN @ THEN [@ EXCEPT ![s].status = "processing"] ELSE @]

update_page_progress(l, p, detections_found) ==
    LET cur == l.currentSymbol
    IN [l EXCEPT !.currentPage = p,
                 !.symbolProgress =
                     IF cur # 0 /\ cur \in DOMAIN @
                     THEN [@ EXCEPT ![cur].completedPages = @ + 1,
                                    ![cur].totalDetections = @ + detections_found]
                     ELSE @]

\* the ETA is written only once a step has completed: the time since startTime
\* is then positive, so is the rate, and the remaining time is formatted
calculate_progress(l) ==
    IF l.totalSteps > 0
    THEN [l EXCEPT !.progressPercent = round_percent(l.completedSteps, l.totalSteps),
                   !.estimatedTimeRemaining =
                       IF l.completedSteps > 0 THEN "duration" ELSE @]
    ELSE l

complete_step(l) == calculate_progress([l EXCEPT !.completedSteps = @ + 1])

complete_symbol_processing(l, s, total_detections) ==
    [l EXCEPT !.symbolProgress =
        IF s \in DOMAIN @
        THEN [@ EXCEPT ![s].status = "completed", ![s].totalDetections = total_detections]
        ELSE @]

\* the list after an append, cut to its last MaxLogEntries entries
rotate_unbounded(entries, e) == Append(entries, e)

\* the list cut to its last MaxLogEntries entries before the append, not after
rotate_late(entries, e) ==
    Append(IF Len(entries) > MaxLogEntries
           THEN SubSeq(entries, Len(entries) - MaxLogEntries + 1, Len(entries))
           ELSE entries, e)

rotate(entries, e) ==
    LET all == Append(entries, e)
    IN IF Len(all) > MaxLogEntries
       THEN SubSeq(all, Len(all) - MaxLogEntries + 1, Len(all))
       ELSE all

error_entry(message, s, p) ==
    [level |-> "error", message |-> message, symbolId |-> s, pageNum |-> p]

add_error(l, e) == [l EXCEPT !.errors = rotate(@, e)]

add_warning(l, e) == [l EXCEPT !.warnings = rotate(@, [e EXCEPT !.level = "warning"])]

complete_detection(l, success) ==
    [l EXCEPT !.status = IF success THEN "completed" ELSE "failed",
              !.progressPercent = IF success THEN 10000 ELSE @,
              !.currentSymbol = 0, !.currentPage = 0]

\* os.path.exists(metadata_file), the file written completely
has_record(r) == r \in DOMAIN run_metadata

\* ---------------------------------------------------- DetectionCoordinator
\* total_pages = len(page_metadata)
TotalPages == Len(page_metadata.list)

idle_thread ==
    [pc |-> "none", symbols |-> <<>>, si |-> 0, pi |-> 0, dets |-> <<>>,
     pdf_open |-> FALSE, createdAt |-> 0, raised |-> "none"]

\* the requested symbols taken in the order of the catalog
symbols_to_process_catalog(ids) ==
    SelectSeq(Dedup(catalog.list), LAMBDA s : ids = NoIds \/ s \in Range(ids))

\* symbols_to_process: the requested ids found in the catalog, else the catalog
symbols_to_process(ids) ==
    IF ids # NoIds
    THEN SelectSeq(Dedup(ids), LAMBDA s : s \in Range(catalog.list))
    ELSE Dedup(catalog.list)

\* the checks of run_detection before a run is created: the exception raised, or "none"
request_error(ids) ==
    IF ~catalog.ok THEN "no_symbol_templates"
    ELSE IF ids # NoIds /\ symbols_to_process(ids) = <<>> THEN "no_valid_symbols"
    ELSE IF ~page_metadata.ok THEN "page_metadata_not_found"
    ELSE IF TotalPages = 0 THEN "no_page_metadata"
    ELSE "none"

\* run_detection up to create_detection_run's open(metadata_file, "w")
run_detection_begin(r, ids) ==
    /\ thr[r].pc = "none"
    /\ IF r = 1 THEN TRUE ELSE thr[r - 1].pc # "none"
    /\ IF request_error(ids) # "none"
       THEN /\ thr' = [thr EXCEPT ![r].pc = "raised", ![r].raised = request_error(ids)]
            /\ UNCHANGED <<partial, clock>>
       ELSE /\ thr' = [thr EXCEPT ![r].pc = "creating",
                                  ![r].symbols = symbols_to_process(ids),
                                  ![r].createdAt = clock + 1]
            /\ clock' = clock + 1
            /\ partial' = partial \cup {meta_file(r)}
    /\ UNCHANGED <<env_vars, runs_index, run_metadata, symbol_files, progress,
                   user_seq, del_pending, last_load, deletes, backups, algo, side_vars>>

\* the rest of create_detection_run (dump, index update), then DetectionProgress()
create_detection_run(r) ==
    /\ thr[r].pc = "creating"
    /\ LET meta == initial_run_metadata(r, thr[r].createdAt, thr[r].symbols, TotalPages)
       IN /\ run_metadata' = (r :> meta) @@ run_metadata
          /\ runs_index' = update_runs_index(runs_index, meta)
    /\ backups' = backups \cup {index_file}
    /\ partial' = partial \ {meta_file(r)}
    /\ progress' = (r :> new_progress(r)) @@ progress
    /\ thr' = [thr EXCEPT ![r].pc = "start"]
    /\ UNCHANGED <<env_vars, symbol_files, clock, user_seq, del_pending, last_load, deletes, algo, side_vars>>

next_symbol_pc(t) == IF t.si > Len(t.symbols) THEN "complete" ELSE "symbol"

run_start_detection(r) ==
    /\ thr[r].pc = "start"
    /\ progress' = [progress EXCEPT
                      ![r] = start_detection(@, thr[r].symbols, TotalPages)]
    /\ thr' = [thr EXCEPT ![r].pc = "load_pdf"]
    /\ UNCHANGED <<env_vars, runs_index, run_metadata, symbol_files, partial,
                   clock, user_seq, del_pending, last_load, deletes, backups, algo, side_vars>>

\* _load_pdf_document; when it raises, the handler's add_error and complete_detection
load_pdf_document(r) ==
    /\ thr[r].pc = "load_pdf"
    /\ IF pdf_ok
       THEN /\ thr' = [thr EXCEPT ![r].pdf_open = TRUE, ![r].si = 1,
                                  ![r].pc = next_symbol_pc([thr[r] EXCEPT !.si = 1])]
            /\ UNCHANGED progress
       ELSE /\ thr' = [thr EXCEPT ![r].pc = "fail_store", ![r].raised = "pdf_not_found"]
            /\ progress' = [progress EXCEPT ![r] =
                   complete_detection(add_error(@, error_entry("run", 0, 0)), FALSE)]
    /\ UNCHANGED <<env_vars, runs_index, run_metadata, symbol_files, partial,
                   clock, user_seq, del_pending, last_load, deletes, backups, algo, side_vars>>

\* start_symbol_processing and _load_symbol_template for the current symbol
start_symbol(r) ==
    /\ thr[r].pc = "symbol"
    /\ LET s == thr[r].symbols[thr[r].si]
           started == start_symbol_processing(progress[r], s)
       IN IF s \in bad_templates
          THEN /\ progress' = [progress EXCEPT ![r] =
                                 add_error(started, error_entry("symbol", s, 0))]
               /\ thr' = [thr EXCEPT ![r].si = @ + 1,
                            ![r].pc = next_symbol_pc([thr[r] EXCEPT !.si = @ + 1])]
          ELSE /\ progress' = [progress EXCEPT ![r] = started]
               /\ thr' = [thr EXCEPT ![r].pc = "page", ![r].pi = 1, ![r].dets = <<>>]
    /\ UNCHANGED <<env_vars, runs_index, run_metadata, symbol_files, partial,
                   clock, user_seq, del_pending, last_load, deletes, backups, algo, side_vars>>

\* the thread after the page at pi, which raised: abandon the symbol's other pages
after_page_failure_abort(t) == [t EXCEPT !.pi = TotalPages + 1, !.pc = "save"]

\* the thread after the page at pi, which raised: continue with the next page
after_page_failure(t) ==
    [t EXCEPT !.pi = @ + 1, !.pc = IF t.pi + 1 > TotalPages THEN "save" ELSE "page"]

after_page_success(t, p, k) ==
    [t EXCEPT !.pi = @ + 1, !.pc = IF t.pi + 1 > TotalPages THEN "save" ELSE "page",
              !.dets = IF k > 0 THEN (p :> k) @@ @ ELSE @]

\* len(page_detections): what detect_symbol_on_page returns for the step
found_at(s, p) == IF <<s, p>> \in DOMAIN found THEN found[<<s, p>>] ELSE 0

\* one iteration of _detect_symbol_across_pages
process_page(r) ==
    /\ thr[r].pc = "page"
    /\ LET s == thr[r].symbols[thr[r].si]
           p == page_metadata.list[thr[r].pi]
       IN IF <<s, p>> \in bad_steps
          THEN /\ progress' = [progress EXCEPT ![r] = add_error(@, error_entry("page", s, p))]
               /\ thr' = [thr EXCEPT ![r] = after_page_failure(@)]
          ELSE /\ progress' = [progress EXCEPT ![r] =
                                 complete_step(update_page_progress(@, p, found_at(s, p)))]
               /\ thr' = [thr EXCEPT ![r] = after_page_success(@, p, found_at(s, p))]
    /\ UNCHANGED <<env_vars, runs_index, run_metadata, symbol_files, partial,
                   clock, user_seq, del_pending, last_load, deletes, backups, algo, side_vars>>

symbol_data(s, dets) ==
    LET dbp == [p \in DOMAIN dets |-> [i \in 1..dets[p] |-> NewDetection(s, p, i)]]
    IN [detectionsByPage |-> dbp, summary |-> calculate_symbol_summary(dbp)]

\* save_symbol_detections for the current symbol, then complete_symbol_processing
save_symbol(r) ==
    /\ thr[r].pc = "save"
    /\ LET s == thr[r].symbols[thr[r].si]
           data == symbol_data(s, thr[r].dets)
       IN /\ symbol_files' = [symbol_files EXCEPT ![r] = (s :> data) @@ @]
          /\ backups' = backups \cup {f \in {symbol_file(r, s)} : s \in DOMAIN symbol_files[r]}
                                 \cup {f \in {meta_file(r)} : has_record(r)}
          /\ IF has_record(r)
             THEN /\ run_metadata' = [run_metadata EXCEPT
                                        ![r] = update_run_symbol_results(@, s, data.summary)]
                  /\ progress' = [progress EXCEPT ![r] =
                         complete_symbol_processing(@, s, data.summary.totalDetections)]
             ELSE \* the run record is gone: the load raises, the symbol's handler logs it
                  /\ UNCHANGED run_metadata
                  /\ progress' = [progress EXCEPT ![r] =
                                    add_error(@, error_entry("symbol", s, 0))]
    /\ thr' = [thr EXCEPT ![r].si = @ + 1, ![r].dets = <<>>,
                 ![r].pc = next_symbol_pc([thr[r] EXCEPT !.si = @ + 1])]
    /\ UNCHANGED <<env_vars, runs_index, partial, clock, user_seq, del_pending, last_load, deletes, algo, side_vars>>

\* progress.complete_detection(success=True)
complete_progress(r) ==
    /\ thr[r].pc = "complete"
    /\ progress' = [progress EXCEPT ![r] = complete_detection(@, TRUE)]
    /\ thr' = [thr EXCEPT ![r].pc = "complete_store"]
    /\ UNCHANGED <<env_vars, runs_index, run_metadata, symbol_files, partial,
                   clock, user_seq, del_pending, last_load, deletes, backups, algo, side_vars>>

\* storage.complete_detection_run(run_id, success): run record, then the index
complete_detection_run(r, success) ==
    IF has_record(r)
    THEN LET meta == complete_run_metadata(run_metadata[r], success)
         IN /\ run_metadata' = [run_metadata EXCEPT ![r] = meta]
            /\ runs_index' = update_runs_index(runs_index, meta)
            /\ backups' = backups \cup {meta_file(r), index_file}
    ELSE UNCHANGED <<run_metadata, runs_index, backups>>

complete_store(r) ==
    /\ thr[r].pc = "complete_store"
    /\ complete_detection_run(r, TRUE)
    /\ thr' = [thr EXCEPT ![r].pc = "done", ![r].pdf_open = FALSE]
    /\ UNCHANGED <<env_vars, symbol_files, partial, progress,
                   clock, user_seq, del_pending, last_load, deletes, algo, side_vars>>

\* the handler of a critical error: storage.complete_detection_run(success=False), raise
fail_store(r) ==
    /\ thr[r].pc = "fail_store"
    /\ complete_detection_run(r, FALSE)
    /\ thr' = [thr EXCEPT ![r].pc = "raised"]
    /\ UNCHANGED <<env_vars, symbol_files, partial, progress,
                   clock, user_seq, del_pending, last_load, deletes, algo, side_vars>>

run_step(r) ==
    \/ create_detection_run(r)
    \/ run_start_detection(r)
    \/ load_pdf_document(r)
    \/ start_symbol(r)
    \/ process_page(r)
    \/ save_symbol(r)
    \/ complete_progress(r)
    \/ complete_store(r)
    \/ fail_store(r)

\* complete_detection_run(success=True) followed step by step: the
\* os.path.exists test of the run record; without the record the call returns
\* and run_detection closes the document
complete_store_exists(r) ==
    /\ thr[r].pc = "complete_store"
    /\ thr' = IF has_record(r)
              THEN [thr EXCEPT ![r].pc = "complete_load"]
              ELSE [thr EXCEPT ![r].pc = "done", ![r].pdf_open = FALSE]
    /\ UNCHANGED <<env_vars, runs_index, run_metadata, symbol_files, partial, progress,
                   clock, user_seq, del_pending, last_load, deletes, backups, algo, side_vars>>

\* ... then the load, the write and the index update, and pdf_document.close();
\* a load of a record removed since the test raises into the handler of
\* run_detection: add_error, complete_detection(success=False)
complete_store_load(r) ==
    /\ thr[r].pc = "complete_load"
    /\ IF has_record(r)
       THEN /\ complete_detection_run(r, TRUE)
            /\ thr' = [thr EXCEPT ![r].pc = "done", ![r].pdf_open = FALSE]
            /\ UNCHANGED progress
       ELSE /\ thr' = [thr EXCEPT ![r].pc = "fail_store", ![r].raised = "run_metadata_not_found"]
            /\ progress' = [progress EXCEPT ![r] =
                   complete_detection(add_error(@, error_entry("run", 0, 0)), FALSE)]
            /\ UNCHANGED <<run_metadata, runs_index, backups>>
    /\ UNCHANGED <<env_vars, symbol_files, partial,
                   clock, user_seq, del_pending, last_load, deletes, algo, side_vars>>

\* ------------------------------------------- DetectionStorage: edit calls
\* os.path.exists(run_dir): the directory holds the run record or a symbol record
run_dir_exists(r) ==
    ~(~has_record(r) /\ meta_file(r) \notin partial /\ symbol_files[r] = <<>>)

\* the record after _recalculate_run_summary, and the index entry made from it
recalculated(r, files) == recalculate_run_summary(run_metadata[r], files)

\* _recalculate_run_summary with its index update, after the symbol records in
\* rewritten were replaced atomically; its load raises when the run record is gone
store_recalculated(r, files, rewritten) ==
    IF has_record(r)
    THEN /\ run_metadata' = [run_metadata EXCEPT ![r] = recalculated(r, files)]
         /\ runs_index' = update_runs_index(runs_index, recalculated(r, files))
         /\ backups' = backups \cup rewritten \cup {meta_file(r), index_file}
    ELSE /\ backups' = backups \cup rewritten
         /\ UNCHANGED <<run_metadata, runs_index>>

\* the updates of a call that _find_symbol_for_detection attributes to symbol s
updates_of_symbol(files, s, updates) ==
    SelectSeq(updates, LAMBDA u : u.detectionId \in DetectionIds(files[s].detectionsByPage))

\* the symbol records after the updates of a call, grouped by symbol, were applied
files_after_updates(files, updates) ==
    [s \in DOMAIN files |->
        IF updates_of_symbol(files, s, updates) # <<>>
        THEN apply_symbol_detection_updates(files[s], updates_of_symbol(files, s, updates))
        ELSE files[s]]

update_detection_status(r, updates) ==
    /\ run_dir_exists(r)
    /\ partial = {}
    /\ LET files == symbol_files[r]
           updated == files_after_updates(files, updates)
       IN /\ symbol_files' = [symbol_files EXCEPT ![r] = updated]
          /\ store_recalculated(r, updated,
                {symbol_file(r, s) : s \in {x \in DOMAIN files :
                                              updates_of_symbol(files, x, updates) # <<>>}})
    /\ UNCHANGED <<env_vars, partial, progress, thr, clock, user_seq, del_pending, last_load, deletes, algo, side_vars>>

\* the position <<page, index>> of a detection id in a symbol record
position_of(dbp, id) ==
    CHOOSE x \in {<<p, i>> : p \in DOMAIN dbp, i \in 1..MaxFound + MaxUserAdds} :
        x[2] <= Len(dbp[x[1]]) /\ dbp[x[1]][x[2]].detectionId = id

update_detection_coordinates(r, id, c) ==
    /\ run_dir_exists(r)
    /\ partial = {}
    /\ find_symbol_for_detection(symbol_files[r], id) # {}
    /\ LET files == symbol_files[r]
           s == CHOOSE x \in find_symbol_for_detection(files, id) : TRUE
           at == position_of(files[s].detectionsByPage, id)
           updated == [files EXCEPT
                         ![s].detectionsByPage[at[1]][at[2]].coords = c,
                         ![s].detectionsByPage[at[1]][at[2]].isUserModified = TRUE]
       IN /\ symbol_files' = [symbol_files EXCEPT ![r] = updated]
          /\ store_recalculated(r, updated, {symbol_file(r, s)})
    /\ UNCHANGED <<env_vars, partial, progress, thr, clock, user_seq, del_pending, last_load, deletes, algo, side_vars>>

add_user_detection(r, s, p, c) ==
    /\ run_dir_exists(r)
    /\ partial = {}
    /\ s \in DOMAIN symbol_files[r]
    /\ user_seq[r] < MaxUserAdds
    /\ LET files == symbol_files[r]
           dbp == files[s].detectionsByPage
           new_detection == UserDetection(s, p, user_seq[r] + 1, c)
           page == IF p \in DOMAIN dbp THEN dbp[p] ELSE <<>>
           updated == [files EXCEPT
                         ![s].detectionsByPage = (p :> Append(page, new_detection)) @@ dbp,
                         ![s].summary.totalDetections = @ + 1,
                         ![s].summary.pendingCount = @ + 1]
       IN /\ symbol_files' = [symbol_files EXCEPT ![r] = updated]
          /\ store_recalculated(r, updated, {symbol_file(r, s)})
    /\ user_seq' = [user_seq EXCEPT ![r] = @ + 1]
    /\ UNCHANGED <<env_vars, partial, progress, thr, clock, del_pending, last_load, deletes, algo, side_vars>>

\* the symbol record delete_detection dumps: the detection popped, the counters adjusted
without_detection(data, id) ==
    LET at == position_of(data.detectionsByPage, id)
        removed == data.detectionsByPage[at[1]][at[2]]
    IN [data EXCEPT
          !.detectionsByPage[at[1]] = SeqWithout(@, at[2]),
          !.summary.totalDetections = @ - 1,
          !.summary.pendingCount = IF removed.status = "pending" THEN @ - 1 ELSE @,
          !.summary.acceptedCount = IF removed.status = "accepted" THEN @ - 1 ELSE @,
          !.summary.rejectedCount = IF removed.status = "rejected" THEN @ - 1 ELSE @]

\* delete_detection up to open(symbol_file, "w"), which truncates the record
delete_detection_begin(r, id) ==
    /\ run_dir_exists(r)
    /\ partial = {}
    /\ del_pending = <<>>
    /\ find_symbol_for_detection(symbol_files[r], id) # {}
    /\ LET s == CHOOSE x \in find_symbol_for_detection(symbol_files[r], id) : TRUE
       IN /\ del_pending' = <<[run |-> r, symbol |-> s,
                               data |-> without_detection(symbol_files[r][s], id)]>>
          /\ partial' = partial \cup {symbol_file(r, s)}
    /\ UNCHANGED <<env_vars, runs_index, run_metadata, symbol_files, progress,
                   thr, clock, user_seq, last_load, deletes, backups, algo, side_vars>>

\* the rest of delete_detection: json.dump, then _recalculate_run_summary
delete_detection_finish ==
    /\ del_pending # <<>>
    /\ LET d == del_pending[1]
           updated == [symbol_files[d.run] EXCEPT ![d.symbol] = d.data]
       IN /\ symbol_files' = [symbol_files EXCEPT ![d.run] = updated]
          /\ partial' = partial \ {symbol_file(d.run, d.symbol)}
          /\ store_recalculated(d.run, updated, {})
    /\ del_pending' = <<>>
    /\ UNCHANGED <<env_vars, progress, thr, clock, user_seq, last_load, deletes, algo, side_vars>>

\* the files of run r that json.load cannot parse: those open for a direct write
unparsable(r) ==
    {f \in {meta_file(r)} \cup {symbol_file(r, s) : s \in DOMAIN symbol_files[r]} :
        f \in partial}

\* load_detection_run by a concurrent reader, every file read by _safe_load_json:
\* the .bak copy where the file cannot be parsed, the error where there is none
load_detection_run(r) ==
    /\ last_load' =
          IF ~run_dir_exists(r) THEN "not_found"
          ELSE IF unparsable(r) # {}
               THEN IF unparsable(r) \subseteq backups THEN "backup" ELSE "raised"
               ELSE IF ~has_record(r) THEN "not_found" ELSE "complete"
    /\ UNCHANGED <<env_vars, runs_index, run_metadata, symbol_files, partial, progress,
                   thr, clock, user_seq, del_pending, deletes, backups, algo, side_vars>>

\* ------------------------------------------ DetectionStorage: run calls
\* what list_detection_runs returns: the "runs" list of the index
list_detection_runs == runs_index

\* what load_detection_run returns when no write is in flight: None (the empty
\* sequence), or the run record with the symbol records
loaded(r) ==
    IF has_record(r)
    THEN <<[run |-> run_metadata[r], symbolDetections |-> symbol_files[r]]>>
    ELSE <<>>

\* the index with the entries of run r filtered out
index_keeping(index, r) == index

index_without(index, r) == SelectSeq(index, LAMBDA e : e.runId # r)

\* the thread of run r holds no DetectionProgress object
thread_ended(r) == thr[r].pc \in {"none", "done", "raised"}

\* delete_detection_run, called with a run id a client can have seen (a run
\* is first seen when create_detection_run has returned)
delete_detection_run(r) ==
    /\ meta_file(r) \notin partial
    /\ \A s \in SymbolIds : symbol_file(r, s) \notin partial
    /\ IF run_dir_exists(r)
       THEN /\ run_metadata' = [x \in DOMAIN run_metadata \ {r} |-> run_metadata[x]]
            /\ symbol_files' = [symbol_files EXCEPT ![r] = <<>>]
            /\ runs_index' = index_without(runs_index, r)
            /\ progress' = IF thread_ended(r)
                           THEN [x \in DOMAIN progress \ {r} |-> progress[x]]
                           ELSE progress
            /\ backups' = {f \in backups : f[2] # r} \cup {index_file}
            /\ deletes' = [deletes EXCEPT ![r] = "deleted"]
       ELSE /\ deletes' = [deletes EXCEPT ![r] = "not_found"]
            /\ UNCHANGED <<run_metadata, symbol_files, runs_index, progress, backups>>
    /\ UNCHANGED <<env_vars, partial, thr, clock, user_seq, del_pending, last_load, algo, side_vars>>

\* ------------------------------------------------------------ environment
SymbolIdInputs == {NoIds, <<MaxSymbols, 1>>, <<UnknownSymbol>>}

Steps(symbols, pages) == symbols \X pages

\* no run was ever created in the document's directory
no_store_records ==
    /\ runs_index = <<>>
    /\ run_metadata = <<>>
    /\ symbol_files = [r \in RunIds |-> <<>>]
    /\ partial = {}
    /\ progress = <<>>
    /\ thr = [r \in RunIds |-> idle_thread]
    /\ clock = 0
    /\ user_seq = [r \in RunIds |-> 0]
    /\ backups = {}
    /\ del_pending = <<>>
    /\ last_load = "none"
    /\ deletes = [r \in RunIds |-> "none"]
    /\ calls = <<>>
    /\ ledger_io = <<>>

\* ... and no detect_symbol_on_page call is followed
no_store == no_store_records /\ algo = <<>>

CatalogSymbols == Range(catalog.list)
Pages == Range(page_metadata.list)

\* concurrent run requests on one document
Init ==
    /\ catalog \in {NoFile} \cup {File(Ascending(n)) : n \in 0..MaxSymbols}
    /\ page_metadata \in {NoFile} \cup {File(Ascending(n)) : n \in 0..MaxPages}
    /\ pdf_ok \in BOOLEAN
    /\ bad_templates \in {{}, CatalogSymbols \cap {1}}
    /\ bad_steps \in {{}, Steps(CatalogSymbols, Pages \cap {1}), Steps(CatalogSymbols, Pages)}
    /\ found \in {[x \in Steps(CatalogSymbols, Pages) |-> k] : k \in {0, MaxFound}}
    /\ no_store

Next ==
    \E r \in RunIds :
        \/ \E ids \in SymbolIdInputs : run_detection_begin(r, ids)
        \/ run_step(r)

Spec == Init /\ [][Next]_vars

\* one run in any environment, small or with many pages
InitRun ==
    /\ catalog \in {NoFile} \cup {File(Ascending(n)) : n \in 0..MaxSymbols}
    /\ \/ /\ page_metadata \in {NoFile} \cup {File(Ascending(n)) : n \in 0..MaxPages}
          /\ bad_steps \in SUBSET Steps(CatalogSymbols, Pages)
          /\ found \in {[x \in Steps(CatalogSymbols, Pages) |-> k] : k \in {0, MaxFound}}
       \/ /\ page_metadata = File(Ascending(ManyPages))
          /\ bad_steps \in {{}, Steps(CatalogSymbols, Pages)}
          /\ found = <<>>
    /\ pdf_ok \in BOOLEAN
    /\ bad_templates \in SUBSET CatalogSymbols
    /\ no_store

NextRun ==
    \/ \E ids \in SymbolIdInputs : run_detection_begin(1, ids)
    \/ run_step(1)

SpecRun == InitRun /\ [][NextRun]_vars

\* ---------------------------------------------------------- edit inputs
UnknownDetection == <<"det", UnknownSymbol, 0, 0>>

CoordInputs == 1..MaxCoord

\* the detection ids a client of run r can name: those it was shown, and a stale one
IdInputs(r) ==
    UNION {DetectionIds(symbol_files[r][s].detectionsByPage) : s \in DOMAIN symbol_files[r]}
        \cup {UnknownDetection}

\* the calls of update_detection_status with at most max updates
UpdateInputs(r, max) ==
    LET one == [detectionId : IdInputs(r), action : Actions, newCoords : CoordInputs]
    IN UNION {[1..n -> one] : n \in 1..max}

\* a one-page document whose templates and page load; every symbol is found on the page
InitStatus ==
    /\ catalog = File(Ascending(MaxSymbols))
    /\ page_metadata = File(Ascending(1))
    /\ pdf_ok \in BOOLEAN
    /\ bad_templates = {}
    /\ bad_steps = {}
    /\ found = [x \in Steps(CatalogSymbols, Pages) |-> MaxFound]
    /\ no_store

\* a one-page document whose templates and page load; only the first symbol is found
InitEdit ==
    /\ catalog = File(Ascending(MaxSymbols))
    /\ page_metadata = File(Ascending(1))
    /\ pdf_ok \in BOOLEAN
    /\ bad_templates = {}
    /\ bad_steps = {}
    /\ found = [x \in Steps(CatalogSymbols, Pages) |-> IF x[1] = 1 THEN MaxFound ELSE 0]
    /\ no_store

status_update(r, max) ==
    \E updates \in UpdateInputs(r, max) : update_detection_status(r, updates)

coordinate_update(r) ==
    \E id \in IdInputs(r), c \in CoordInputs : update_detection_coordinates(r, id, c)

user_addition(r) ==
    \E s \in SymbolIds, p \in Pages, c \in CoordInputs : add_user_detection(r, s, p, c)

deletion_begin(r) == \E id \in IdInputs(r) : delete_detection_begin(r, id)

\* one run and the status updates of its reviewers
NextStatus ==
    \/ run_detection_begin(1, NoIds)
    \/ run_step(1)
    \/ status_update(1, MaxUpdates)

SpecStatus == InitStatus /\ [][NextStatus]_vars

\* one run and every edit call of its reviewers, one update per status call
NextEdit ==
    \/ run_detection_begin(1, NoIds)
    \/ run_step(1)
    \/ status_update(1, 1)
    \/ coordinate_update(1)
    \/ user_addition(1)
    \/ deletion_begin(1)
    \/ delete_detection_finish

SpecEdit == InitEdit /\ [][NextEdit]_vars

\* one run, the deletions of its reviewers, and a reader of the run
NextRead ==
    \/ run_detection_begin(1, NoIds)
    \/ run_step(1)
    \/ deletion_begin(1)
    \/ delete_detection_finish
    \/ load_detection_run(1)

SpecRead == InitStatus /\ [][NextRead]_vars

\* one run, the status updates and deletions of its reviewers, and a reader
NextBackup ==
    \/ run_detection_begin(1, NoIds)
    \/ run_step(1)
    \/ status_update(1, 1)
    \/ deletion_begin(1)
    \/ delete_detection_finish
    \/ load_detection_run(1)

SpecBackup == InitStatus /\ [][NextBackup]_vars

\* ------------------------------------------------ a ledger and its client
\* the arrival number of the next entry of a list, carried in the entry's context
next_arrival(entries) ==
    IF entries = <<>> THEN 1 ELSE entries[Len(entries)].pageNum + 1

\* progress.add_error("Test error", context) on the ledger of run 1
log_error ==
    /\ 1 \in DOMAIN progress
    /\ next_arrival(progress[1].errors) <= MaxLogCalls
    /\ progress' = [progress EXCEPT ![1] =
           add_error(@, error_entry("Test error", 0, next_arrival(@.errors)))]
    /\ UNCHANGED <<env_vars, runs_index, run_metadata, symbol_files, partial, thr, clock,
                   user_seq, del_pending, last_load, deletes, backups, algo, side_vars>>

\* progress.add_warning("Test warning", context) on the ledger of run 1
log_warning ==
    /\ 1 \in DOMAIN progress
    /\ next_arrival(progress[1].warnings) <= MaxLogCalls
    /\ progress' = [progress EXCEPT ![1] =
           add_warning(@, error_entry("Test warning", 0, next_arrival(@.warnings)))]
    /\ UNCHANGED <<env_vars, runs_index, run_metadata, symbol_files, partial, thr, clock,
                   user_seq, del_pending, last_load, deletes, backups, algo, side_vars>>

\* DetectionProgress(run_id, run_dir) constructed on its own, as the ledger test does
InitLog ==
    /\ catalog = File(Ascending(1))
    /\ page_metadata = File(Ascending(1))
    /\ pdf_ok = TRUE
    /\ bad_templates = {}
    /\ bad_steps = {}
    /\ found = <<>>
    /\ runs_index = <<>>
    /\ run_metadata = <<>>
    /\ symbol_files = [r \in RunIds |-> <<>>]
    /\ partial = {}
    /\ progress = (1 :> new_progress(1))
    /\ thr = [r \in RunIds |-> idle_thread]
    /\ clock = 0
    /\ user_seq = [r \in RunIds |-> 0]
    /\ del_pending = <<>>
    /\ last_load = "none"
    /\ deletes = [r \in RunIds |-> "none"]
    /\ backups = {}
    /\ algo = <<>>
    /\ calls = <<>>
    /\ ledger_io = <<>>

NextLog == log_error \/ log_warning

SpecLog == InitLog /\ [][NextLog]_vars

\* ------------------------------------------------ SymbolDetectionAlgorithm
\* an edge map: its shape and the pixels <<x, y>> that are edges (> 0)
EdgeMap(w, h, edges) == [w |-> w, h |-> h, edges |-> edges]

shape(m) == <<m.h, m.w>>

Min(a, b) == IF a < b THEN a ELSE b

\* scores are kept in hundredths; a ratio is kept as numerator and denominator
ratio(n, d) == [num |-> n, den |-> d]

at_least(r, hundredths) == r.num * 100 >= hundredths * r.den

\* the (width, height) pairs of _generate_template_variations, in the order made
scale_variations(target_width, target_height, variance_px) ==
    LET offsets == [i \in 1..(2 * variance_px + 1) |-> i - variance_px - 1]
        sizes == [i \in DOMAIN offsets |->
                     <<target_width + offsets[i], target_height + offsets[i]>>]
    IN SelectSeq(sizes, LAMBDA s : s[1] > 0 /\ s[2] > 0)

\* the (width, height, angle) keys of the variations dict, in insertion order
RECURSIVE variation_keys(_, _)
variation_keys(sizes, angles) ==
    IF sizes = <<>> THEN <<>>
    ELSE [i \in DOMAIN angles |-> <<sizes[1][1], sizes[1][2], angles[i]>>]
             \o variation_keys(Tail(sizes), angles)

\* range(rotation_range[0], rotation_range[1] + 1, rotation_step)
rotation_angles(lo, hi, step) ==
    LET n == IF hi < lo THEN 0 ELSE ((hi - lo) \div step) + 1
    IN [i \in 1..n |-> lo + (i - 1) * step]

\* source_edges[y:y+h, x:x+w]: the slice, cut off at the border of the map
source_clip(m, x, y, w, h) ==
    LET cw == Min(w, IF m.w > x THEN m.w - x ELSE 0)
        ch == Min(h, IF m.h > y THEN m.h - y ELSE 0)
        inside == {e \in m.edges : /\ e[1] >= x /\ e[1] < x + cw
                                   /\ e[2] >= y /\ e[2] < y + ch}
    IN EdgeMap(cw, ch, {<<e[1] - x, e[2] - y>> : e \in inside})

\* a variant of _verify_shape_iou that compares nothing with the threshold
verify_shape_iou_any(clip, template_edges, threshold) ==
    IF shape(clip) # shape(template_edges) THEN <<FALSE, ratio(0, 1)>>
    ELSE LET union == Cardinality(clip.edges \cup template_edges.edges)
         IN IF union = 0 THEN <<FALSE, ratio(0, 1)>>
            ELSE <<TRUE, ratio(Cardinality(clip.edges \cap template_edges.edges), union)>>

\* <<is_verified, iou_score>>
verify_shape_iou(clip, template_edges, threshold) ==
    IF shape(clip) # shape(template_edges) THEN <<FALSE, ratio(0, 1)>>
    ELSE LET intersection == Cardinality(clip.edges \cap template_edges.edges)
             union == Cardinality(clip.edges \cup template_edges.edges)
         IN IF union = 0 THEN <<FALSE, ratio(0, 1)>>
            ELSE <<at_least(ratio(intersection, union), threshold),
                   ratio(intersection, union)>>

\* the points of np.where(result >= match_threshold): row by row, left to right
RECURSIVE locations(_, _, _)
locations(result, sites, match_threshold) ==
    IF sites = {} THEN <<>>
    ELSE LET first == CHOOSE p \in sites :
                 \A q \in sites : p[2] < q[2] \/ (p[2] = q[2] /\ p[1] <= q[1])
             rest == locations(result, sites \ {first}, match_threshold)
         IN IF result[first] >= match_threshold THEN <<first>> \o rest ELSE rest

\* all_detections_raw: every variation's points at or above the threshold
RECURSIVE raw_detections(_, _, _)
raw_detections(keys, results, match_threshold) ==
    IF keys = <<>> THEN <<>>
    ELSE LET key == keys[1]
             points == locations(results[key], DOMAIN results[key], match_threshold)
         IN [i \in DOMAIN points |->
                [point |-> points[i], confidence |-> results[key][points[i]],
                 size |-> <<key[1], key[2]>>, angle |-> key[3]]]
             \o raw_detections(Tail(keys), results, match_threshold)

\* a sort that is not stable: of two equal confidences the later comes first
RECURSIVE sort_by_confidence_unstable(_)
sort_by_confidence_unstable(points) ==
    IF points = <<>> THEN <<>>
    ELSE LET sorted == sort_by_confidence_unstable(SubSeq(points, 1, Len(points) - 1))
             e == points[Len(points)]
             ahead == SelectSeq(sorted, LAMBDA x : x.confidence > e.confidence)
             behind == SelectSeq(sorted, LAMBDA x : x.confidence <= e.confidence)
         IN ahead \o <<e>> \o behind

\* points_data.sort(key=confidence, reverse=True): stable, highest first
RECURSIVE sort_by_confidence(_)
sort_by_confidence(points) ==
    IF points = <<>> THEN <<>>
    ELSE LET sorted == sort_by_confidence(SubSeq(points, 1, Len(points) - 1))
             e == points[Len(points)]
             ahead == SelectSeq(sorted, LAMBDA x : x.confidence >= e.confidence)
             behind == SelectSeq(sorted, LAMBDA x : x.confidence < e.confidence)
         IN ahead \o <<e>> \o behind

\* sqrt(dx^2 + dy^2) < min_distance
is_close(p, q, min_distance) ==
    (p[1] - q[1]) * (p[1] - q[1]) + (p[2] - q[2]) * (p[2] - q[2])
        < min_distance * min_distance

RECURSIVE keep_distant(_, _, _)
keep_distant(points, unique, min_distance) ==
    IF points = <<>> THEN unique
    ELSE keep_distant(Tail(points),
             IF \E i \in DOMAIN unique :
                    is_close(points[1].point, unique[i].point, min_distance)
             THEN unique ELSE Append(unique, points[1]),
             min_distance)

group_close_points(points, min_distance) ==
    keep_distant(sort_by_confidence(points), <<>>, min_distance)

generate_candidates(keys, results, match_threshold) ==
    group_close_points(raw_detections(keys, results, match_threshold),
                       NMS_DISTANCE_THRESHOLD)

\* the verdict of _verify_shape_iou on candidate c
verdict(source_edges, variations, c, iou_threshold) ==
    verify_shape_iou(
        source_clip(source_edges, c.point[1], c.point[2], c.size[1], c.size[2]),
        variations[<<c.size[1], c.size[2], c.angle>>], iou_threshold)

verify_candidates_iou(source_edges, candidates, variations, iou_threshold) ==
    LET checked == [i \in DOMAIN candidates |->
            [candidate_id |-> i - 1,
             x |-> candidates[i].point[1], y |-> candidates[i].point[2],
             width |-> candidates[i].size[1], height |-> candidates[i].size[2],
             match_confidence |-> candidates[i].confidence,
             iou_score |-> verdict(source_edges, variations, candidates[i], iou_threshold)[2],
             matched_angle |-> candidates[i].angle,
             status |-> "pending"]]
    IN SelectSeq(checked, LAMBDA v :
           verdict(source_edges, variations, candidates[v.candidate_id + 1], iou_threshold)[1])

\* image_to_pdf: 72 / dpi points per pixel, kept in hundredths of a point
image_to_pdf(pixels) == (pixels * 72 * 100) \div DETECTION_DPI

transform_to_pdf_coordinates(verified) ==
    [i \in DOMAIN verified |->
        [candidate_id |-> verified[i].candidate_id,
         image_coords |-> [left |-> verified[i].x, top |-> verified[i].y,
                           width |-> verified[i].width, height |-> verified[i].height],
         pdf_coords |-> [left |-> image_to_pdf(verified[i].x),
                         top |-> image_to_pdf(verified[i].y),
                         width |-> image_to_pdf(verified[i].width),
                         height |-> image_to_pdf(verified[i].height)],
         match_confidence |-> verified[i].match_confidence,
         iou_score |-> verified[i].iou_score,
         matched_angle |-> verified[i].matched_angle,
         status |-> verified[i].status]]

\* the call's template keys
call_keys ==
    variation_keys(scale_variations(TargetSize, TargetSize, ScaleVariance),
                   rotation_angles(0, 0, 1))

\* step 4 of detect_symbol_on_page
detect_generate_candidates ==
    /\ algo # <<>>
    /\ algo.pc = "generate"
    /\ algo' = [algo EXCEPT
                  !.pc = "verify",
                  !.candidates = generate_candidates(call_keys, algo.results,
                                                     algo.match_threshold)]
    /\ UNCHANGED <<env_vars, runs_index, run_metadata, symbol_files, partial, progress, thr,
                   clock, user_seq, del_pending, last_load, deletes, backups, side_vars>>

\* step 5 of detect_symbol_on_page
detect_verify_candidates ==
    /\ algo # <<>>
    /\ algo.pc = "verify"
    /\ algo' = [algo EXCEPT
                  !.pc = "transform",
                  !.verified = verify_candidates_iou(algo.source_edges, algo.candidates,
                                                     algo.variations, algo.iou_threshold)]
    /\ UNCHANGED <<env_vars, runs_index, run_metadata, symbol_files, partial, progress, thr,
                   clock, user_seq, del_pending, last_load, deletes, backups, side_vars>>

\* step 6 of detect_symbol_on_page, and its return
detect_transform ==
    /\ algo # <<>>
    /\ algo.pc = "transform"
    /\ algo' = [algo EXCEPT !.pc = "returned",
                            !.returned = transform_to_pdf_coordinates(algo.verified)]
    /\ UNCHANGED <<env_vars, runs_index, run_metadata, symbol_files, partial, progress, thr,
                   clock, user_seq, del_pending, last_load, deletes, backups, side_vars>>

\* the side of the largest template, and the pixels and points the inputs vary on
MaxSide == TargetSize + ScaleVariance

SourceSites == {<<x, 0>> : x \in {0, 1, FarSite, FarSite + 1}}

TemplateSites(key) == {e \in {<<0, 0>>, <<1, 0>>} : e[1] < key[1]}

MatchSites == {<<0, 0>>, <<FarSite, 0>>}

MatchScores == {20, DEFAULT_MATCH_THRESHOLD, 40}

\* a call of detect_symbol_on_page after its template variations were made:
\* the edge maps of Canny, the score maps of matchTemplate and the thresholds
InitDetect ==
    /\ catalog = File(Ascending(1))
    /\ page_metadata = File(Ascending(1))
    /\ pdf_ok = TRUE
    /\ bad_templates = {}
    /\ bad_steps = {}
    /\ found = <<>>
    /\ no_store_records
    /\ \E edges \in SUBSET SourceSites,
          templates \in [Range(call_keys) -> SUBSET {<<0, 0>>, <<1, 0>>}],
          results \in [Range(call_keys) -> [MatchSites -> MatchScores]],
          thresholds \in {<<DEFAULT_MATCH_THRESHOLD, DEFAULT_IOU_THRESHOLD>>, <<40, 50>>} :
          /\ \A key \in Range(call_keys) : templates[key] \subseteq TemplateSites(key)
          /\ algo = [pc |-> "generate",
                     source_edges |-> EdgeMap(FarSite + MaxSide, MaxSide, edges),
                     variations |-> [key \in Range(call_keys) |->
                                        EdgeMap(key[1], key[2], templates[key])],
                     results |-> results,
                     match_threshold |-> thresholds[1],
                     iou_threshold |-> thresholds[2],
                     candidates |-> <<>>, verified |-> <<>>, returned |-> <<>>]

NextDetect ==
    \/ detect_generate_candidates
    \/ detect_verify_candidates
    \/ detect_transform

SpecDetect == InitDetect /\ [][NextDetect]_vars

\* one run whose completion is followed step by step, and the deletion of the run
NextClose ==
    \/ \E ids \in SymbolIdInputs : run_detection_begin(1, ids)
    \/ create_detection_run(1)
    \/ run_start_detection(1)
    \/ load_pdf_document(1)
    \/ start_symbol(1)
    \/ process_page(1)
    \/ save_symbol(1)
    \/ complete_progress(1)
    \/ complete_store_exists(1)
    \/ complete_store_load(1)
    \/ fail_store(1)
    \/ delete_detection_run(1)

SpecClose == Init /\ [][NextClose]_vars

\* ------------------------------------ CoordinateTransformer: page <-> image
\* lengths in points are kept in hundredths of a point; a pixel of an image at
\* dpi is 7200 / dpi hundredths of a point wide
CoordinateFields == {"left", "top", "width", "height"}

\* int(x): truncation towards zero of n / d
truncated(n, d) == IF n >= 0 THEN n \div d ELSE -((-n) \div d)

\* int(points * pdf_to_image_scale); where the exact product is a whole number
\* of pixels the float product may lie just under it (below), and int() then
\* gives one pixel less
to_pixels(points, image_dpi, below) ==
    LET product == points * image_dpi
        whole == truncated(product, 7200)
    IN IF below /\ product % 7200 = 0 /\ product # 0
       THEN IF product > 0 THEN whole - 1 ELSE whole + 1
       ELSE whole

\* a conversion that forgets the scale: one pixel per point
pdf_to_image_unscaled(pdf_coords, image_dpi, below) ==
    [f \in CoordinateFields |-> to_pixels(pdf_coords[f], 72, below)] @@ [dpi |-> image_dpi]

pdf_to_image(pdf_coords, image_dpi, below) ==
    [f \in CoordinateFields |-> to_pixels(pdf_coords[f], image_dpi, below)]
        @@ [dpi |-> image_dpi]

\* points_per_pixel = 72.0 / float(image_coords.dpi), applied to each field
image_to_pdf_at(image_coords) ==
    [f \in CoordinateFields |-> image_coords[f] * (7200 \div image_coords.dpi)]

\* transformer.pdf_to_image(pdf_coords)
convert_pdf_to_image ==
    /\ algo # <<>>
    /\ algo.pc = "pdf"
    /\ \E below \in BOOLEAN :
          algo' = [algo EXCEPT !.pc = "image",
                               !.image_coords = pdf_to_image(algo.pdf_coords, algo.dpi, below)]
    /\ UNCHANGED <<env_vars, runs_index, run_metadata, symbol_files, partial, progress, thr,
                   clock, user_seq, del_pending, last_load, deletes, backups, side_vars>>

\* transformer.image_to_pdf(image_coords)
convert_image_to_pdf ==
    /\ algo # <<>>
    /\ algo.pc = "image"
    /\ algo' = [algo EXCEPT !.pc = "restored",
                            !.restored = image_to_pdf_at(algo.image_coords)]
    /\ UNCHANGED <<env_vars, runs_index, run_metadata, symbol_files, partial, progress, thr,
                   clock, user_seq, del_pending, last_load, deletes, backups, side_vars>>

\* the image resolutions of a page, and the lengths (hundredths of a point) of
\* a rectangle: zero, under a pixel, whole pixels, whole points, a page's edge
PageDpis == {72, 200, 300}

Lengths == {-50, 0, 10, 36, 199, 15000, 61199}

\* a transformer of a page and a rectangle in PDF coordinates
InitConvert ==
    /\ catalog = File(Ascending(1))
    /\ page_metadata = File(Ascending(1))
    /\ pdf_ok = TRUE
    /\ bad_templates = {}
    /\ bad_steps = {}
    /\ found = <<>>
    /\ no_store_records
    /\ \E image_dpi \in PageDpis, pdf_coords \in [CoordinateFields -> Lengths] :
          algo = [pc |-> "pdf", dpi |-> image_dpi, pdf_coords |-> pdf_coords,
                  image_coords |-> <<>>, restored |-> <<>>]

NextConvert ==
    \/ convert_pdf_to_image
    \/ convert_image_to_pdf

SpecConvert == InitConvert /\ [][NextConvert]_vars

\* --------------------------------------- a ledger, its callers and a poller
Callers == 1..MaxCallers

\* progress.json is followed once the ledger of run 1 has been constructed
new_ledger_io(l) ==
    [file |-> <<l>>, file_partial |-> FALSE, tmp |-> <<>>, pc |-> "idle",
     holder |-> 0, polled |-> "none"]

\* a variant of the call that opens progress.json itself for writing
ledger_call_direct(c, l) ==
    /\ ledger_io # <<>>
    /\ ledger_io.holder = 0
    /\ progress' = [progress EXCEPT ![1] = l]
    /\ ledger_io' = [ledger_io EXCEPT !.holder = c, !.pc = "opened", !.tmp = <<>>,
                                      !.file_partial = TRUE]
    /\ UNCHANGED <<env_vars, runs_index, run_metadata, symbol_files, partial, thr, clock,
                   user_seq, del_pending, last_load, deletes, backups, algo, calls>>

\* a mutating call: "with self.lock", the change of progress_data, then
\* _save_progress up to open(temp_file, "w")
ledger_call(c, l) ==
    /\ ledger_io # <<>>
    /\ ledger_io.holder = 0
    /\ progress' = [progress EXCEPT ![1] = l]
    /\ ledger_io' = [ledger_io EXCEPT !.holder = c, !.pc = "opened", !.tmp = <<>>]
    /\ UNCHANGED <<env_vars, runs_index, run_metadata, symbol_files, partial, thr, clock,
                   user_seq, del_pending, last_load, deletes, backups, algo, calls>>

call_start_detection(c) ==
    ledger_call(c, start_detection(progress[1], <<1>>, 1))

call_start_symbol_processing(c) ==
    ledger_call(c, start_symbol_processing(progress[1], 1))

call_update_page_progress(c) ==
    /\ progress[1].currentPage = 0
    /\ \A x \in DOMAIN progress[1].symbolProgress :
          progress[1].symbolProgress[x].completedPages < MaxLedgerSteps
    /\ ledger_call(c, update_page_progress(progress[1], 1, 1))

call_complete_step(c) ==
    /\ progress[1].completedSteps < MaxLedgerSteps
    /\ ledger_call(c, complete_step(progress[1]))

call_complete_symbol_processing(c) ==
    ledger_call(c, complete_symbol_processing(progress[1], 1, 1))

call_add_error(c) ==
    /\ next_arrival(progress[1].errors) <= MaxLedgerLogs
    /\ ledger_call(c, add_error(progress[1],
                       error_entry("Test error", 0, next_arrival(progress[1].errors))))

call_add_warning(c) ==
    /\ next_arrival(progress[1].warnings) <= MaxLedgerLogs
    /\ ledger_call(c, add_warning(progress[1],
                       error_entry("Test warning", 0, next_arrival(progress[1].warnings))))

call_complete_detection(c) ==
    \E success \in BOOLEAN : ledger_call(c, complete_detection(progress[1], success))

\* _save_progress: json.dump into the temporary file
save_progress_dump ==
    /\ ledger_io # <<>>
    /\ ledger_io.pc = "opened"
    /\ ledger_io' = [ledger_io EXCEPT !.pc = "dumped", !.tmp = <<progress[1]>>]
    /\ UNCHANGED <<env_vars, runs_index, run_metadata, symbol_files, partial, progress, thr,
                   clock, user_seq, del_pending, last_load, deletes, backups, algo, calls>>

\* _save_progress: os.rename(temp_file, progress_file); the call returns, the mutex is free
save_progress_rename ==
    /\ ledger_io # <<>>
    /\ ledger_io.pc = "dumped"
    /\ ledger_io' = [ledger_io EXCEPT !.pc = "idle", !.file = ledger_io.tmp, !.tmp = <<>>,
                                      !.file_partial = FALSE, !.holder = 0]
    /\ UNCHANGED <<env_vars, runs_index, run_metadata, symbol_files, partial, progress, thr,
                   clock, user_seq, del_pending, last_load, deletes, backups, algo, calls>>

\* ProgressMonitor.load_progress by an external poller
load_progress ==
    /\ ledger_io # <<>>
    /\ ledger_io' = [ledger_io EXCEPT !.polled =
                        IF ledger_io.file = <<>> THEN "missing"
                        ELSE IF ledger_io.file_partial THEN "partial"
                        ELSE IF ledger_io.file[1] = progress[1] THEN "current"
                        ELSE "previous"]
    /\ UNCHANGED <<env_vars, runs_index, run_metadata, symbol_files, partial, progress, thr,
                   clock, user_seq, del_pending, last_load, deletes, backups, algo, calls>>

\* DetectionProgress(run_id, run_dir): progress_data set, _save_progress done
InitLedger ==
    /\ catalog = File(Ascending(1))
    /\ page_metadata = File(Ascending(1))
    /\ pdf_ok = TRUE
    /\ bad_templates = {}
    /\ bad_steps = {}
    /\ found = <<>>
    /\ runs_index = <<>>
    /\ run_metadata = <<>>
    /\ symbol_files = [r \in RunIds |-> <<>>]
    /\ partial = {}
    /\ progress = (1 :> new_progress(1))
    /\ thr = [r \in RunIds |-> idle_thread]
    /\ clock = 0
    /\ user_seq = [r \in RunIds |-> 0]
    /\ del_pending = <<>>
    /\ last_load = "none"
    /\ deletes = [r \in RunIds |-> "none"]
    /\ backups = {}
    /\ algo = <<>>
    /\ calls = <<>>
    /\ ledger_io = new_ledger_io(new_progress(1))

NextLedger ==
    \/ \E c \in Callers :
          \/ call_start_detection(c)
          \/ call_start_symbol_processing(c)
          \/ call_update_page_progress(c)
          \/ call_complete_step(c)
          \/ call_complete_symbol_processing(c)
          \/ call_add_error(c)
          \/ call_add_warning(c)
          \/ call_complete_detection(c)
    \/ save_progress_dump
    \/ save_progress_rename
    \/ load_progress

SpecLedger == InitLedger /\ [][NextLedger]_vars

\* ----------------- DetectionStorage: update_detection_status, step by step
\* each `with lock:` block of the call is an acquire step and an access step;
\* lock is the Python variable of that name, file the file the block works on
no_path == <<>>

idle_call ==
    [pc |-> "idle", run |-> 0, updates |-> <<>>, symbol |-> 0, symbol_data |-> <<>>,
     run_metadata |-> <<>>, todo |-> <<>>, summaries |-> <<>>, index_data |-> <<>>,
     lock |-> no_path, file |-> no_path, held |-> FALSE]

\* the lock registered for a path: one lock per path
get_path_lock(path) == path

\* no caller is inside a `with lock:` block
quiet == \A c \in DOMAIN calls : ~calls[c].held

\* the symbol directories of os.listdir that hold a detections.json
listed_symbols(r, among) == SelectSeq(among, LAMBDA s : s \in DOMAIN symbol_files[r])

\* the call after a block: before the next block of _recalculate_run_summary's
\* loop (lock is reassigned), or before its write of the run record (it is not)
after_summary(call, left) ==
    IF left = <<>>
    THEN [call EXCEPT !.pc = "write_meta", !.todo = <<>>, !.held = FALSE,
                      !.file = meta_file(call.run)]
    ELSE [call EXCEPT !.pc = "read_summary", !.todo = left, !.held = FALSE,
                      !.lock = get_path_lock(symbol_file(call.run, left[1])),
                      !.file = symbol_file(call.run, left[1])]

raised_call(call) == [call EXCEPT !.pc = "raised", !.held = FALSE]

\* update_detection_status up to its first block: the run directory test and
\* the grouping of the updates (one update of a known detection)
update_status_begin(c, r, updates) ==
    /\ calls # <<>>
    /\ calls[c].pc = "idle"
    /\ quiet
    /\ run_dir_exists(r)
    /\ partial = {}
    /\ Len(updates) = 1
    /\ \E s \in find_symbol_for_detection(symbol_files[r], updates[1].detectionId) :
          calls' = [calls EXCEPT ![c] =
              [idle_call EXCEPT !.pc = "load_symbol", !.run = r, !.updates = updates,
                                !.symbol = s,
                                !.lock = get_path_lock(symbol_file(r, s)),
                                !.file = symbol_file(r, s)]]
    /\ UNCHANGED <<env_vars, runs_index, run_metadata, symbol_files, partial, progress, thr,
                   clock, user_seq, del_pending, last_load, deletes, backups, algo, ledger_io>>

\* `with lock:` entered: the lock is taken when no other thread holds it
call_acquire(c) ==
    /\ calls # <<>>
    /\ calls[c].pc \in {"load_symbol", "write_symbol", "load_meta", "read_summary",
                        "write_meta", "load_index", "write_index"}
    /\ ~calls[c].held
    /\ \A o \in DOMAIN calls : ~(calls[o].held /\ calls[o].lock = calls[c].lock)
    /\ calls' = [calls EXCEPT ![c].held = TRUE]
    /\ UNCHANGED <<env_vars, runs_index, run_metadata, symbol_files, partial, progress, thr,
                   clock, user_seq, del_pending, last_load, deletes, backups, algo, ledger_io>>

\* _apply_symbol_detection_updates: symbol_data = _safe_load_json(symbol_file)
access_load_symbol(c) ==
    /\ calls # <<>>
    /\ calls[c].pc = "load_symbol" /\ calls[c].held
    /\ LET r == calls[c].run
           s == calls[c].symbol
       IN calls' = [calls EXCEPT ![c] =
              IF s \in DOMAIN symbol_files[r]
              THEN [@ EXCEPT !.pc = "write_symbol", !.held = FALSE,
                             !.symbol_data = symbol_files[r][s]]
              ELSE raised_call(@)]
    /\ UNCHANGED <<env_vars, runs_index, run_metadata, symbol_files, partial, progress, thr,
                   clock, user_seq, del_pending, last_load, deletes, backups, algo, ledger_io>>

\* _apply_symbol_detection_updates: the updates applied to what was loaded,
\* _atomic_write_json(symbol_file, symbol_data)
access_write_symbol(c) ==
    /\ calls # <<>>
    /\ calls[c].pc = "write_symbol" /\ calls[c].held
    /\ LET r == calls[c].run
           s == calls[c].symbol
       IN IF s \in DOMAIN symbol_files[r]
          THEN /\ symbol_files' = [symbol_files EXCEPT ![r][s] =
                     apply_symbol_detection_updates(calls[c].symbol_data, calls[c].updates)]
               /\ backups' = backups \cup {symbol_file(r, s)}
               /\ calls' = [calls EXCEPT ![c] =
                     [@ EXCEPT !.pc = "load_meta", !.held = FALSE,
                               !.lock = get_path_lock(meta_file(r)),
                               !.file = meta_file(r)]]
          ELSE /\ calls' = [calls EXCEPT ![c] = raised_call(@)]
               /\ UNCHANGED <<symbol_files, backups>>
    /\ UNCHANGED <<env_vars, runs_index, run_metadata, partial, progress, thr,
                   clock, user_seq, del_pending, last_load, deletes, algo, ledger_io>>

\* _recalculate_run_summary: run_metadata = _safe_load_json(metadata_file), os.listdir
access_load_meta(c) ==
    /\ calls # <<>>
    /\ calls[c].pc = "load_meta" /\ calls[c].held
    /\ LET r == calls[c].run
       IN calls' = [calls EXCEPT ![c] =
              IF has_record(r)
              THEN after_summary([@ EXCEPT !.run_metadata = run_metadata[r]],
                                 listed_symbols(r, Ascending(MaxSymbols)))
              ELSE raised_call(@)]
    /\ UNCHANGED <<env_vars, runs_index, run_metadata, symbol_files, partial, progress, thr,
                   clock, user_seq, del_pending, last_load, deletes, backups, algo, ledger_io>>

\* _recalculate_run_summary: one symbol record read in the loop
access_read_summary(c) ==
    /\ calls # <<>>
    /\ calls[c].pc = "read_summary" /\ calls[c].held
    /\ LET r == calls[c].run
           s == calls[c].todo[1]
       IN calls' = [calls EXCEPT ![c] =
              IF s \in DOMAIN symbol_files[r]
              THEN after_summary(
                      [@ EXCEPT !.summaries =
                           (s :> [summary |-> symbol_files[r][s].summary]) @@ @],
                      listed_symbols(r, Tail(calls[c].todo)))
              ELSE raised_call(@)]
    /\ UNCHANGED <<env_vars, runs_index, run_metadata, symbol_files, partial, progress, thr,
                   clock, user_seq, del_pending, last_load, deletes, backups, algo, ledger_io>>

\* _recalculate_run_summary: _atomic_write_json(metadata_file, run_metadata)
access_write_meta(c) ==
    /\ calls # <<>>
    /\ calls[c].pc = "write_meta" /\ calls[c].held
    /\ LET r == calls[c].run
           meta == recalculate_run_summary(calls[c].run_metadata, calls[c].summaries)
       IN IF run_dir_exists(r)
          THEN /\ run_metadata' = (r :> meta) @@ run_metadata
               /\ backups' = backups \cup {meta_file(r)}
               /\ calls' = [calls EXCEPT ![c] =
                     [@ EXCEPT !.pc = "load_index", !.held = FALSE, !.run_metadata = meta,
                               !.lock = get_path_lock(index_file), !.file = index_file]]
          ELSE /\ calls' = [calls EXCEPT ![c] = raised_call(@)]
               /\ UNCHANGED <<run_metadata, backups>>
    /\ UNCHANGED <<env_vars, runs_index, symbol_files, partial, progress, thr,
                   clock, user_seq, del_pending, last_load, deletes, algo, ledger_io>>

\* _update_runs_index: index_data = _safe_load_json(self.runs_index_file)
access_load_index(c) ==
    /\ calls # <<>>
    /\ calls[c].pc = "load_index" /\ calls[c].held
    /\ calls' = [calls EXCEPT ![c] =
           [@ EXCEPT !.pc = "write_index", !.held = FALSE, !.index_data = runs_index]]
    /\ UNCHANGED <<env_vars, runs_index, run_metadata, symbol_files, partial, progress, thr,
                   clock, user_seq, del_pending, last_load, deletes, backups, algo, ledger_io>>

\* _update_runs_index: the entry replaced in what was loaded, the sort, the write
access_write_index(c) ==
    /\ calls # <<>>
    /\ calls[c].pc = "write_index" /\ calls[c].held
    /\ runs_index' = update_runs_index(calls[c].index_data, calls[c].run_metadata)
    /\ backups' = backups \cup {index_file}
    /\ calls' = [calls EXCEPT ![c] = [@ EXCEPT !.pc = "returned", !.held = FALSE]]
    /\ UNCHANGED <<env_vars, run_metadata, symbol_files, partial, progress, thr,
                   clock, user_seq, del_pending, last_load, deletes, algo, ledger_io>>

\* the accept of one detection a client of run r was shown
Accepts(r) ==
    {<<[detectionId |-> id, action |-> "accept", newCoords |-> 1]>> :
        id \in IdInputs(r) \ {UnknownDetection}}

\* a two-page document, the first symbol found on every page; two request threads
InitRace ==
    /\ catalog = File(Ascending(MaxSymbols))
    /\ page_metadata = File(Ascending(MaxPages))
    /\ pdf_ok = TRUE
    /\ bad_templates = {}
    /\ bad_steps = {}
    /\ found = [x \in Steps(CatalogSymbols, Pages) |-> IF x[1] = 1 THEN MaxFound ELSE 0]
    /\ runs_index = <<>>
    /\ run_metadata = <<>>
    /\ symbol_files = [r \in RunIds |-> <<>>]
    /\ partial = {}
    /\ progress = <<>>
    /\ thr = [r \in RunIds |-> idle_thread]
    /\ clock = 0
    /\ user_seq = [r \in RunIds |-> 0]
    /\ backups = {}
    /\ del_pending = <<>>
    /\ last_load = "none"
    /\ deletes = [r \in RunIds |-> "none"]
    /\ algo = <<>>
    /\ calls = [c \in Callers |-> idle_call]
    /\ ledger_io = <<>>

\* one run, two status updates of its detections and the run's deletion; the
\* steps of the run and the deletion take their locks while no caller holds one
NextRace ==
    \/ quiet /\ run_detection_begin(1, NoIds)
    \/ quiet /\ run_step(1)
    \/ quiet /\ delete_detection_run(1)
    \/ \E c \in Callers :
          \/ \E updates \in Accepts(1) : update_status_begin(c, 1, updates)
          \/ call_acquire(c)
          \/ access_load_symbol(c)
          \/ access_write_symbol(c)
          \/ access_load_meta(c)
          \/ access_read_summary(c)
          \/ access_write_meta(c)
          \/ access_load_index(c)
          \/ access_write_index(c)

SpecRace == InitRace /\ [][NextRace]_vars

\* the runs of a document, their status updates and their deletion
NextIndex ==
    \E r \in RunIds :
        \/ run_detection_begin(r, NoIds)
        \/ run_step(r)
        \/ status_update(r, 1)
        \/ delete_detection_run(r)

SpecIndex == InitEdit /\ [][NextIndex]_vars

\* ======================================================= properties: runs
has_ledger(r) == r \in DOMAIN progress

record_status(r) == IF has_record(r) THEN run_metadata[r].status ELSE "none"
ledger_status(r) == IF has_ledger(r) THEN progress[r].status ELSE "none"

\* C1: for one document at most one run is active (ledger status initializing
\* or running) at any time, so the steps of two runs are never interleaved.
C1_OneActiveRun ==
    \A r1, r2 \in RunIds :
        /\ ledger_status(r1) \in {"initializing", "running"}
        /\ ledger_status(r2) \in {"initializing", "running"}
        => r1 = r2

LifecycleEdges ==
    {<<"none", "initializing">>, <<"initializing", "running">>,
     <<"running", "completed">>, <<"running", "failed">>}

\* C3: in the run record and in the ledger the status of a run changes only
\* along initializing -> running -> completed | failed; it never skips running,
\* never moves backwards, and never leaves completed or failed.
C3_Lifecycle ==
    [][\A r \in RunIds :
         /\ \/ record_status(r)' = record_status(r)
            \/ <<record_status(r), record_status(r)'>> \in LifecycleEdges
         /\ \/ ledger_status(r)' = ledger_status(r)
            \/ <<ledger_status(r), ledger_status(r)'>> \in LifecycleEdges]_vars

\* C6: a request whose page geometry or source document cannot be loaded
\* ends as a failed run: run record failed, ledger failed, no symbol result saved.
C6_LoadFailureFailsRun ==
    \A r \in RunIds :
        thr[r].pc = "raised" /\ thr[r].raised \in {"page_metadata_not_found", "pdf_not_found"}
        => /\ record_status(r) = "failed"
           /\ ledger_status(r) = "failed"
           /\ symbol_files[r] = <<>>

\* C7: a run is running only with at least one symbol resolved from the
\* catalog, at least one page with geometry, and its own run record.
C7_RunningRequires ==
    \A r \in RunIds :
        ledger_status(r) = "running"
        => /\ Len(thr[r].symbols) >= 1
           /\ TotalPages >= 1
           /\ has_record(r)

\* ============================================ properties: partial failures
current_symbol(r) == thr[r].symbols[thr[r].si]
current_page(r) == page_metadata.list[thr[r].pi]

\* the thread of run r is about to process a page whose processing raises
page_fails(r) ==
    thr[r].pc = "page" /\ <<current_symbol(r), current_page(r)>> \in bad_steps

\* the symbol loop of run r has ended normally
loop_finished(r) == thr[r].pc \in {"complete", "complete_store", "done"}

good_pages(s) == {p \in Pages : <<s, p>> \notin bad_steps}

last_entry(entries) == entries[Len(entries)]

\* C4: a page that fails for a symbol gets an error entry and is skipped (no
\* step counted, nothing stored for it), the thread goes on with the symbol's
\* next page; when the loop ends every symbol with a loadable template is
\* saved with the detections of exactly its pages that did not fail, and
\* every such page is counted.
C4_PageFailureSkipped ==
    /\ [][page_fails(1) /\ thr' # thr =>
            /\ progress'[1].errors # <<>>
            /\ last_entry(progress'[1].errors) =
                   error_entry("page", current_symbol(1), current_page(1))
            /\ progress'[1].symbolProgress = progress[1].symbolProgress
            /\ progress'[1].completedSteps = progress[1].completedSteps
            /\ progress'[1].status = "running"
            /\ thr'[1].dets = thr[1].dets
            /\ thr'[1].si = thr[1].si
            /\ thr'[1].pi = thr[1].pi + 1
            /\ thr'[1].pc = IF thr[1].pi < TotalPages THEN "page" ELSE "save"]_vars
    /\ [](loop_finished(1) =>
            \A s \in Range(thr[1].symbols) \ bad_templates :
                /\ s \in DOMAIN symbol_files[1]
                /\ DOMAIN symbol_files[1][s].detectionsByPage =
                       {p \in good_pages(s) : found_at(s, p) > 0}
                /\ progress[1].symbolProgress[s].completedPages =
                       Cardinality(good_pages(s)))

\* a finished run in which a page of a symbol failed, a later page of that
\* symbol and a later symbol were processed
C4_Witness ==
    /\ thr[1].pc = "done"
    /\ \E s \in Range(thr[1].symbols) \ bad_templates, p, q \in Pages :
          /\ p < q
          /\ <<s, p>> \in bad_steps /\ <<s, q>> \notin bad_steps
          /\ error_entry("page", s, p) \in Range(progress[1].errors)
          /\ progress[1].symbolProgress[s].completedPages >= 1
          /\ \E s2 \in DOMAIN symbol_files[1] :
                s2 > s /\ progress[1].symbolProgress[s2].status = "completed"

RECURSIVE page_failures(_, _)
\* the error entries of one symbol's pages, in processing order
page_failures(s, pages) ==
    IF pages = <<>> THEN <<>>
    ELSE (IF <<s, Head(pages)>> \in bad_steps
          THEN <<error_entry("page", s, Head(pages))>> ELSE <<>>)
         \o page_failures(s, Tail(pages))

RECURSIVE run_failures(_)
\* the error entries of a run over the given symbols, in processing order
run_failures(symbols) ==
    IF symbols = <<>> THEN <<>>
    ELSE (IF Head(symbols) \in bad_templates
          THEN <<error_entry("symbol", Head(symbols), 0)>>
          ELSE page_failures(Head(symbols), page_metadata.list))
         \o run_failures(Tail(symbols))

LastN(seq, n) == IF Len(seq) > n THEN SubSeq(seq, Len(seq) - n + 1, Len(seq)) ELSE seq

\* C5 (as stated): a finished run whose document and geometry were loaded is
\* completed in run record and ledger, and every per-page and per-symbol
\* failure of the run is an entry of the ledger's errors or warnings.
C5_AllFailuresVisible ==
    thr[1].pc = "done" =>
        /\ record_status(1) = "completed"
        /\ ledger_status(1) = "completed"
        /\ Range(run_failures(thr[1].symbols))
               \subseteq Range(progress[1].errors) \cup Range(progress[1].warnings)

\* C5 (amended): a finished run whose document and geometry were loaded is
\* completed in run record and ledger, and the ledger's errors are the most
\* recent MaxLogEntries failures of the run, in order.
C5_RecentFailuresVisible ==
    thr[1].pc = "done" =>
        /\ record_status(1) = "completed"
        /\ ledger_status(1) = "completed"
        /\ progress[1].errors = LastN(run_failures(thr[1].symbols), MaxLogEntries)

\* a completed run with more failures than the ledger keeps
C5_Witness ==
    /\ thr[1].pc = "done"
    /\ Len(run_failures(thr[1].symbols)) > MaxLogEntries
    /\ Len(progress[1].errors) = MaxLogEntries
    /\ record_status(1) = "completed" /\ ledger_status(1) = "completed"

\* ====================================================== properties: edits
\* C2: every write of a persisted record replaces the record atomically, so
\* a concurrent reader of a run never meets a partially written record.
C2_ReaderNeverSeesPartialRecord == last_load \notin {"raised", "backup"}

symbol_results(r) == IF has_record(r) THEN run_metadata[r].symbolResults ELSE <<>>

saved_ids(r) ==
    [s \in DOMAIN symbol_files[r] |-> DetectionIds(symbol_files[r][s].detectionsByPage)]

\* C8: once the run record says completed or failed, no step changes the
\* run's status, its symbol results, or which detections each symbol holds.
C8_FinishedRunKeepsItsDetections ==
    [][record_status(1) \in {"completed", "failed"} =>
          /\ record_status(1)' = record_status(1)
          /\ symbol_results(1)' = symbol_results(1)
          /\ saved_ids(1)' = saved_ids(1)]_vars

\* the <<page, position>> pairs of the detections a symbol record holds
placed(data) ==
    {x \in (DOMAIN data.detectionsByPage) \X (1..(MaxFound + MaxUserAdds)) :
        x[2] <= Len(data.detectionsByPage[x[1]])}

\* how many persisted detections of the symbol record have a status in sts
fresh_count(data, sts) ==
    Cardinality({x \in placed(data) : data.detectionsByPage[x[1]][x[2]].status \in sts})

\* the symbol record's summary equals a count over its detections
symbol_summary_fresh(data) ==
    /\ data.summary.totalDetections = fresh_count(data, Statuses)
    /\ data.summary.acceptedCount = fresh_count(data, {"accepted"})
    /\ data.summary.rejectedCount = fresh_count(data, {"rejected"})
    /\ data.summary.pendingCount = fresh_count(data, {"pending"})
    /\ data.summary.modifiedCount = fresh_count(data, {"modified"})

run_count(r, sts) ==
    SumOver([s \in DOMAIN symbol_files[r] |-> fresh_count(symbol_files[r][s], sts)],
            DOMAIN symbol_files[r])

\* the run record's per-status counts equal a count over all persisted detections
run_status_counts_fresh(r) ==
    /\ run_metadata[r].summary.acceptedDetections = run_count(r, {"accepted"})
    /\ run_metadata[r].summary.rejectedDetections = run_count(r, {"rejected"})
    /\ run_metadata[r].summary.pendingDetections = run_count(r, {"pending"})
    /\ run_metadata[r].summary.modifiedDetections = run_count(r, {"modified"})

\* C9: after every update_detection_status call, each symbol's summary
\* (total, accepted, rejected, pending, modified) equals a count over the
\* symbol's persisted detections, and the run record's accepted, rejected,
\* pending and modified counts equal the counts over all persisted detections.
C9_StatusUpdatesKeepSummariesFresh ==
    [][status_update(1, MaxUpdates) =>
          /\ \A s \in DOMAIN symbol_files'[1] : symbol_summary_fresh(symbol_files'[1][s])
          /\ run_status_counts_fresh(1)']_vars

\* status updates have left one detection accepted and another modified
C9_Witness ==
    /\ has_record(1)
    /\ run_metadata[1].summary.acceptedDetections = 1
    /\ run_metadata[1].summary.modifiedDetections = 1
    /\ \E s1, s2 \in DOMAIN symbol_files[1] :
          /\ s1 # s2
          /\ symbol_files[1][s1].summary.acceptedCount = 1
          /\ symbol_files[1][s2].summary.modifiedCount = 1

all_saved(r) ==
    UNION {AllDetections(symbol_files[r][s].detectionsByPage) : s \in DOMAIN symbol_files[r]}

\* a step of update_detection_coordinates, add_user_detection or delete_detection
coordinate_edit(r) ==
    \/ coordinate_update(r)
    \/ user_addition(r)
    \/ deletion_begin(r)
    \/ delete_detection_finish

\* C10: a coordinate update, a user addition and a deletion each change at
\* most one detection record, and after each of them every symbol's summary
\* and the run record's total and per-status counts equal a recount of the
\* persisted detections.
C10_EditsKeepSummariesFresh ==
    [][coordinate_edit(1) =>
          /\ Cardinality(all_saved(1)' \ all_saved(1)) <= 1
          /\ Cardinality(all_saved(1) \ all_saved(1)') <= 1
          /\ partial' = {} =>
                /\ \A s \in DOMAIN symbol_files'[1] :
                      symbol_summary_fresh(symbol_files'[1][s])
                /\ run_status_counts_fresh(1)'
                /\ run_metadata'[1].summary.totalDetections = run_count(1, Statuses)']_vars

\* ============================================ properties: status updates
known_id(r, id) == find_symbol_for_detection(symbol_files[r], id) # {}

only_unknown_ids(r, updates) ==
    \A i \in 1..Len(updates) : ~known_id(r, updates[i].detectionId)

status_of(action) ==
    CASE action = "accept" -> "accepted"
      [] action = "reject" -> "rejected"
      [] action = "modify" -> "modified"
      [] action = "pending" -> "pending"

\* the update at position i is the last one of the call for its detection id
last_for_id(updates, i) ==
    \A j \in (i + 1)..Len(updates) : updates[j].detectionId # updates[i].detectionId

\* the updates of known ids of a call took effect in the next state
known_updates_applied(r, updates) ==
    \A i \in 1..Len(updates) :
        known_id(r, updates[i].detectionId) /\ last_for_id(updates, i) =>
            \E d \in all_saved(r)' :
                /\ d.detectionId = updates[i].detectionId
                /\ d.status = status_of(updates[i].action)

\* C11: in an update_detection_status call an update with an unknown
\* detection id is skipped and the updates of known ids are still applied;
\* a call with only unknown ids leaves every symbol record and the run
\* record's summary unchanged.
C11_UnknownIdsSkipped ==
    [][\A updates \in UpdateInputs(1, MaxUpdates) :
          update_detection_status(1, updates) =>
              /\ known_updates_applied(1, updates)
              /\ only_unknown_ids(1, updates) =>
                    /\ symbol_files' = symbol_files
                    /\ run_metadata'[1].summary = run_metadata[1].summary]_vars

accept_of(id) == [detectionId |-> id, action |-> "accept", newCoords |-> 1]

\* the status of every persisted detection and the summary of every symbol record
statuses_and_summaries(files) ==
    [s \in DOMAIN files |->
        [statuses |-> {<<d.detectionId, d.status>> :
                          d \in AllDetections(files[s].detectionsByPage)},
         summary |-> files[s].summary]]

\* C12: accepting a detection twice, in two calls or twice in one call, gives
\* the same detection statuses, the same symbol summaries and the same run
\* summary as accepting it once.
C12_AcceptIdempotent ==
    has_record(1) /\ partial = {} =>
        \A id \in IdInputs(1) :
            LET files == symbol_files[1]
                once == files_after_updates(files, <<accept_of(id)>>)
                twice == files_after_updates(once, <<accept_of(id)>>)
                both == files_after_updates(files, <<accept_of(id), accept_of(id)>>)
                meta_once == recalculate_run_summary(run_metadata[1], once)
            IN /\ statuses_and_summaries(twice) = statuses_and_summaries(once)
               /\ statuses_and_summaries(both) = statuses_and_summaries(once)
               /\ recalculate_run_summary(meta_once, twice).summary = meta_once.summary

\* a detection accepted by a status update, for which a second accept changes nothing
C12_Witness ==
    /\ has_record(1) /\ partial = {}
    /\ run_metadata[1].summary.acceptedDetections >= 1
    /\ \E d \in all_saved(1) :
          /\ d.status = "accepted" /\ d.reviewed
          /\ files_after_updates(symbol_files[1], <<accept_of(d.detectionId)>>) = symbol_files[1]

\* =================================================== properties: run records
\* the run ids that list_detection_runs returns
listed_ids == {list_detection_runs[i].runId : i \in 1..Len(list_detection_runs)}

\* C13: delete_detection_run on a run that exists removes its run record and
\* its symbol records and returns true, and from then on no list_detection_runs
\* holds the run and load_detection_run returns nothing for it; on a run id
\* that does not exist it returns false and leaves the index and every run
\* as they were.
C13_DeleteRemovesRun ==
    /\ [][\A r \in RunIds :
            delete_detection_run(r) =>
                IF run_dir_exists(r)
                THEN /\ deletes'[r] = "deleted"
                     /\ loaded(r)' = <<>>
                     /\ symbol_files'[r] = <<>>
                     /\ r \notin listed_ids'
                     /\ \A o \in RunIds \ {r} : loaded(o)' = loaded(o)
                ELSE /\ deletes'[r] = "not_found"
                     /\ runs_index' = runs_index
                     /\ run_metadata' = run_metadata
                     /\ symbol_files' = symbol_files]_vars
    /\ [](\A r \in RunIds :
            deletes[r] = "deleted" => r \notin listed_ids /\ loaded(r) = <<>>)

C13_Witness ==
    /\ deletes[1] = "deleted"
    /\ deletes[2] = "not_found"
    /\ thr[1].createdAt > 0
    /\ loaded(1) = <<>>
    /\ loaded(2) # <<>>
    /\ listed_ids = {2}
    /\ symbol_files[2] # <<>>

\* the entries that list_detection_runs returns for run r
entries_of(r) == {i \in 1..Len(list_detection_runs) : list_detection_runs[i].runId = r}

\* C15: create_detection_run allocates an id no record or index entry has yet
\* and persists a record with status "initializing"; right after it,
\* load_detection_run returns a record with that id and list_detection_runs
\* holds exactly one entry for it (both read the files, so a newly constructed
\* storage object returns the same).
C15_CreatedRunIsStored ==
    [][\A r \in RunIds :
         create_detection_run(r) =>
             /\ ~has_record(r)
             /\ entries_of(r) = {}
             /\ loaded(r)' # <<>>
             /\ loaded(r)'[1].run.runId = r
             /\ loaded(r)'[1].run.status = "initializing"
             /\ Cardinality(entries_of(r)') = 1
             /\ \A i \in entries_of(r)' : list_detection_runs'[i].status = "initializing"]_vars

C15_Witness ==
    /\ thr[2].pc = "start"
    /\ loaded(2) # <<>>
    /\ run_metadata[2].status = "initializing"
    /\ listed_ids = {1, 2}
    /\ Cardinality(entries_of(2)) = 1

\* C16: whatever runs were created, completed, updated or deleted, the list
\* that list_detection_runs returns is ordered by creation time, newest first.
C16_ListNewestFirst ==
    \A i \in 1..(Len(list_detection_runs) - 1) :
        list_detection_runs[i].createdAt >= list_detection_runs[i + 1].createdAt

\* the older run was updated after the newer one was created and completed,
\* and a deletion has taken place
C16_Witness ==
    /\ Len(list_detection_runs) = 2
    /\ list_detection_runs[1].runId = 2
    /\ list_detection_runs[1].createdAt > list_detection_runs[2].createdAt
    /\ list_detection_runs[1].status = "completed"
    /\ list_detection_runs[2].summary.acceptedDetections >= 1
    /\ deletes[2] = "not_found"

\* ================================================= properties: backup copies
\* C17: a load_detection_run that meets a record file it cannot parse does
\* not fail; it returns the record's version kept in the .bak copy.
C17_UnparsableReadFromBackup ==
    [][load_detection_run(1) /\ unparsable(1) # {} => last_load' = "backup"]_vars

\* ================================================ properties: the ledger
\* C18: after every mutating call on a ledger whose totalSteps is positive,
\* progressPercent is completedSteps / totalSteps * 100 (to two decimals).
C18_PercentFollowsCounters ==
    \A r \in DOMAIN progress :
        progress[r].totalSteps > 0 =>
            progress[r].progressPercent =
                round_percent(progress[r].completedSteps, progress[r].totalSteps)

\* C19: a ledger on which no step has completed reports "Calculating..." as
\* its estimated time remaining.
C19_NoStepNoEstimate ==
    \A r \in DOMAIN progress :
        progress[r].completedSteps = 0 =>
            progress[r].estimatedTimeRemaining = "Calculating..."

\* the entries of a list are consecutive arrivals, in arrival order
in_arrival_order(entries) ==
    \A i \in 1..(Len(entries) - 1) : entries[i + 1].pageNum = entries[i].pageNum + 1

\* nothing was dropped from a list that is not full
none_dropped_unless_full(entries) ==
    entries # <<>> /\ Len(entries) < MaxLogEntries => entries[1].pageNum = 1

\* C20: the errors list and the warnings list never hold more than 50
\* entries; add_error and add_warning each append exactly one entry to their
\* list, dropping the oldest entries beyond 50, so each list holds the most
\* recent entries in arrival order.
C20_LogsKeepMostRecent ==
    /\ [](\A r \in DOMAIN progress :
            /\ Len(progress[r].errors) <= MaxLogEntries
            /\ Len(progress[r].warnings) <= MaxLogEntries
            /\ in_arrival_order(progress[r].errors)
            /\ in_arrival_order(progress[r].warnings)
            /\ none_dropped_unless_full(progress[r].errors)
            /\ none_dropped_unless_full(progress[r].warnings))
    /\ [][log_error =>
            /\ progress'[1].errors =
                   LastN(Append(progress[1].errors, last_entry(progress'[1].errors)),
                         MaxLogEntries)
            /\ last_entry(progress'[1].errors).pageNum = next_arrival(progress[1].errors)
            /\ last_entry(progress'[1].errors).level = "error"
            /\ progress'[1].warnings = progress[1].warnings]_vars
    /\ [][log_warning =>
            /\ progress'[1].warnings =
                   LastN(Append(progress[1].warnings, last_entry(progress'[1].warnings)),
                         MaxLogEntries)
            /\ last_entry(progress'[1].warnings).pageNum = next_arrival(progress[1].warnings)
            /\ last_entry(progress'[1].warnings).level = "warning"
            /\ progress'[1].errors = progress[1].errors]_vars

\* both lists are full and have dropped their oldest entries
C20_Witness ==
    /\ Len(progress[1].errors) = MaxLogEntries
    /\ progress[1].errors[1].pageNum = 3
    /\ Len(progress[1].warnings) = MaxLogEntries
    /\ progress[1].warnings[1].pageNum = 2
    /\ progress[1].warnings[MaxLogEntries].pageNum = MaxLogEntries + 1

\* ============================================== properties: the algorithm
\* the page slice and the template variant of a deduplicated candidate
slice_of(c) == source_clip(algo.source_edges, c.point[1], c.point[2], c.size[1], c.size[2])

variant_of(c) == algo.variations[<<c.size[1], c.size[2], c.angle>>]

\* the IoU of a candidate is below the threshold: unequal shapes, an empty
\* union of the edge masks, or intersection / union under the threshold
iou_below_threshold(c) ==
    \/ shape(slice_of(c)) # shape(variant_of(c))
    \/ slice_of(c).edges \cup variant_of(c).edges = {}
    \/ Cardinality(slice_of(c).edges \cap variant_of(c).edges) * 100
           < algo.iou_threshold
               * Cardinality(slice_of(c).edges \cup variant_of(c).edges)

returned_ids == {algo.returned[i].candidate_id : i \in 1..Len(algo.returned)}

\* C14: every candidate that detect_symbol_on_page returns has an IoU score
\* at or above the call's IoU threshold and a match confidence at or above the
\* call's match threshold; a deduplicated candidate whose IoU is below the
\* threshold is not returned, and a slice whose shape differs from the
\* template variant's is never verified.
C14_ReturnedCandidatesPassThresholds ==
    algo # <<>> =>
        /\ algo.pc = "returned" =>
              /\ \A i \in 1..Len(algo.returned) :
                    /\ at_least(algo.returned[i].iou_score, algo.iou_threshold)
                    /\ algo.returned[i].match_confidence >= algo.match_threshold
              /\ \A i \in 1..Len(algo.candidates) :
                    iou_below_threshold(algo.candidates[i]) <=> (i - 1) \notin returned_ids
        /\ \A k1 \in DOMAIN algo.variations, k2 \in DOMAIN algo.variations :
              shape(algo.variations[k1]) # shape(algo.variations[k2]) =>
                  verify_shape_iou(algo.variations[k1], algo.variations[k2],
                                   algo.iou_threshold) = <<FALSE, ratio(0, 1)>>

\* a call that returned one candidate exactly at both thresholds and discarded
\* another whose edge masks have an empty union
C14_Witness ==
    /\ algo # <<>>
    /\ algo.pc = "returned"
    /\ Len(algo.candidates) = 2
    /\ Len(algo.returned) = 1
    /\ algo.returned[1].match_confidence = algo.match_threshold
    /\ algo.returned[1].iou_score.num * 100 = algo.iou_threshold * algo.returned[1].iou_score.den
    /\ \E i \in 1..2 :
          /\ (i - 1) \notin returned_ids
          /\ slice_of(algo.candidates[i]).edges \cup variant_of(algo.candidates[i]).edges = {}

\* the status, the counters and the lists of a ledger
frozen_fields(l) ==
    [status |-> l.status, totalSteps |-> l.totalSteps, completedSteps |-> l.completedSteps,
     progressPercent |-> l.progressPercent, errors |-> l.errors, warnings |-> l.warnings]

\* C21: once complete_detection has set a ledger to completed or failed, no
\* later call changes its status, its counters or its errors and warnings.
C21_FinishedLedgerFrozen ==
    [][progress[1].status \in {"completed", "failed"} =>
          frozen_fields(progress'[1]) = frozen_fields(progress[1])]_vars

C23_DeduplicationIdempotent ==
    algo # <<>> /\ algo.pc # "generate"
    => group_close_points(algo.candidates, NMS_DISTANCE_THRESHOLD) = algo.candidates

\* two distant candidates of equal confidence were kept and a nearer one dropped
C23_Witness ==
    /\ algo # <<>>
    /\ algo.pc = "verify"
    /\ Len(algo.candidates) = 2
    /\ algo.candidates[1].confidence = algo.candidates[2].confidence
    /\ Len(raw_detections(call_keys, algo.results, algo.match_threshold)) > 2

\* ================================================ properties: conversions
distance(a, b) == IF a >= b THEN a - b ELSE b - a

\* C24: a rectangle converted to image coordinates and back differs from the
\* original, in each of left, top, width and height, by at most 2 pixels of
\* the image and by at most 1 point.
C24_RoundTripWithinTolerance ==
    algo # <<>> /\ algo.pc = "restored"
    => \A f \in CoordinateFields :
          /\ distance(algo.restored[f], algo.pdf_coords[f]) * algo.dpi <= 2 * 7200
          /\ distance(algo.restored[f], algo.pdf_coords[f]) <= 100

\* truncation lost most of a point on one side and nothing on another
C24_Witness ==
    /\ algo # <<>>
    /\ algo.pc = "restored"
    /\ algo.dpi = 72
    /\ distance(algo.restored.left, algo.pdf_coords.left) = 99
    /\ algo.restored.width = algo.pdf_coords.width
    /\ algo.pdf_coords.width = 15000
    /\ algo.pdf_coords.height = -50
    /\ algo.restored.height = 0

\* ============================================ properties: the PDF handle
\* C26: when run_detection has returned or raised, the PDF document it opened
\* is closed, whatever failed on the way.
C26_DocumentClosedOnExit ==
    \A r \in RunIds : thr[r].pc \in {"done", "raised"} => ~thr[r].pdf_open

\* ========================================= properties: completion summary
\* the run record's totals equal a recount of the persisted symbol records
run_totals_fresh(r) ==
    /\ run_metadata[r].summary.totalDetections = run_count(r, Statuses)
    /\ run_metadata[r].summary.completedSymbols = Cardinality(DOMAIN symbol_files[r])
    /\ run_metadata[r].summary.symbolsWithDetections =
          Cardinality({s \in DOMAIN symbol_files[r] :
                          fresh_count(symbol_files[r][s], Statuses) > 0})

\* C27: the step that marks the run record completed leaves a summary equal
\* to a recomputation over the persisted symbol records, not whatever was
\* accumulated while the symbols were saved.
C27_CompletedSummaryRecomputed ==
    [][record_status(1) # "completed" /\ record_status(1)' = "completed"
          => run_totals_fresh(1)']_vars

\* ============================================ properties: processing order
first_index(seq, x) ==
    CHOOSE i \in DOMAIN seq : seq[i] = x /\ \A j \in 1..(i - 1) : seq[j] # x

\* the symbols of seq come in the order of their first occurrence in order
follows_order(seq, order) ==
    /\ Range(seq) \subseteq Range(order)
    /\ \A i, j \in DOMAIN seq :
          i < j => first_index(order, seq[i]) < first_index(order, seq[j])

writing(c) == calls[c].held /\ calls[c].pc \in {"write_symbol", "write_meta", "write_index"}

\* C25: a thread that reads or writes a record file holds the lock registered
\* for that file's path, so no two threads are inside blocks on the same file
\* when one of the blocks writes it.
C25_AccessUnderOwnLock ==
    /\ \A c \in DOMAIN calls :
          calls[c].held => calls[c].lock = get_path_lock(calls[c].file)
    /\ \A c, o \in DOMAIN calls :
          c # o /\ writing(c) /\ calls[o].held => calls[o].file # calls[c].file

\* the detection a returned call accepted is accepted in the symbol record
accept_kept(c) ==
    LET r == calls[c].run
        s == calls[c].symbol
    IN \E d \in AllDetections(symbol_files[r][s].detectionsByPage) :
          d.detectionId = calls[c].updates[1].detectionId /\ d.status = "accepted"

\* C29: when the concurrent status updates have returned, the symbol record
\* shows the change of each of them, and the run record still holds the
\* result of every symbol saved by the run.
C29_NoLostUpdate ==
    /\ \A c \in DOMAIN calls :
          calls[c].pc = "returned" /\ calls[c].symbol \in DOMAIN symbol_files[calls[c].run]
          => accept_kept(c)
    /\ \A r \in RunIds :
          /\ has_record(r)
          /\ thr[r].pc = "done"
          /\ \A c \in DOMAIN calls : calls[c].pc \in {"idle", "returned", "raised"}
          => DOMAIN run_metadata[r].symbolResults = DOMAIN symbol_files[r]

\* C30: when no call is under way, the index holds one entry for each run
\* that was created and not deleted and no entry for any other run.
C30_IndexHoldsLiveRuns ==
    /\ \A r \in RunIds : thr[r].pc \in {"none", "done", "raised"}
    /\ \A c \in DOMAIN calls : calls[c].pc \in {"idle", "returned", "raised"}
    => \A r \in RunIds :
          Cardinality({i \in DOMAIN runs_index : runs_index[i].runId = r})
              = IF has_record(r) THEN 1 ELSE 0

====
